---- MODULE Spec2Model ----
(***************************************************************************)
(* A model of the Voli-MCP forex session volatility analyser.              *)
(*                                                                         *)
(* Floating point quantities are modelled as exact rationals [n, d].       *)
(* Prices are integers counted in units of 0.000001 (so a standard pip,    *)
(* 0.0001, is 100 units and a JPY pip, 0.01, is 10000 units).  Timestamps  *)
(* are minutes: ts = day * 1440 + minute of the day.  Text that the code   *)
(* takes apart character by character (pair codes, session selectors) is   *)
(* a sequence of one-character strings.                                    *)
(*                                                                         *)
(* Arithmetic on rationals is exact: round() is rounding half to even of   *)
(* the exact value and comparisons are those of the exact values, so the   *)
(* representation error of binary floating point (which can move a value   *)
(* lying exactly on a rounding tie or on a threshold) is not modelled.     *)
(*                                                                         *)
(* The specifications share the variables: Spec (analyze_forex_session),   *)
(* SpecScorer (ConfidenceScorer.calculate_confidence), SpecMatcher         *)
(* (PatternMatcher.find_similar_conditions), SpecEngine (build_intel with  *)
(* its DataFetcher cache), SpecRepeat (the same analysis asked for twice), *)
(* SpecConcurrent (two requests at once on the shared data client) and     *)
(* SpecCalls (single calls of the analysis operations).                    *)
(***************************************************************************)
EXTENDS Integers, Sequences, FiniteSets, TLC

(***************************************************************************)
(* Bounds of the model.                                                    *)
(***************************************************************************)
\* days of candles held by the data source in the orchestrator runs
MaxHistDays == 2
\* days of a pattern-matching history that may differ from one another
MaxVariedDays == 3
\* total days of a pattern-matching history
MaxDays == 12
\* largest number of occurrences tried on the confidence scorer
MaxOccurrences == 240
\* largest daily request budget tried on the data client
MaxRequestsPerDay == 4

(***************************************************************************)
(* Rational arithmetic (the code's floats).                                *)
(***************************************************************************)
RECURSIVE GCD(_, _)
GCD(a, b) == IF b = 0 THEN a ELSE GCD(b, a % b)

AbsInt(x) == IF x < 0 THEN -x ELSE x

Rat(n, d) ==
    LET g == GCD(AbsInt(n), d)
    IN  IF n = 0 THEN [n |-> 0, d |-> 1] ELSE [n |-> n \div g, d |-> d \div g]

RatInt(k) == [n |-> k, d |-> 1]
RatAdd(a, b) == Rat(a.n * b.d + b.n * a.d, a.d * b.d)
RatSub(a, b) == Rat(a.n * b.d - b.n * a.d, a.d * b.d)
RatMul(a, b) == Rat(a.n * b.n, a.d * b.d)
\* a / b for b # 0
RatDiv(a, b) ==
    IF b.n > 0 THEN Rat(a.n * b.d, a.d * b.n) ELSE Rat(-(a.n * b.d), a.d * (-b.n))
RatLT(a, b) == a.n * b.d < b.n * a.d
RatLE(a, b) == a.n * b.d <= b.n * a.d
RatMax(a, b) == IF RatLT(a, b) THEN b ELSE a
RatMin(a, b) == IF RatLT(b, a) THEN b ELSE a
RatAbs(a) == [n |-> AbsInt(a.n), d |-> a.d]

\* nearest integer to n / d (d > 0), ties to the even neighbour
RoundDiv(n, d) ==
    LET q == n \div d
        r == n % d
    IN  IF 2 * r < d THEN q
        ELSE IF 2 * r > d THEN q + 1
        ELSE IF q % 2 = 0 THEN q ELSE q + 1

\* Python's round(x, digits), as the integer count of 10^-digits units;
\* scale is 10^digits.  Exact decimal ties go to the even neighbour.
Round(x, scale) == RoundDiv(x.n * scale, x.d)

(***************************************************************************)
(* Sequences.                                                              *)
(***************************************************************************)
RECURSIVE SumSeq(_)
SumSeq(s) == IF s = <<>> THEN 0 ELSE Head(s) + SumSeq(Tail(s))

RECURSIVE MaxOf(_)
MaxOf(S) ==
    LET x == CHOOSE y \in S : TRUE
    IN  IF Cardinality(S) = 1 THEN x
        ELSE LET m == MaxOf(S \ {x}) IN IF x > m THEN x ELSE m

RECURSIVE MinOf(_)
MinOf(S) ==
    LET x == CHOOSE y \in S : TRUE
    IN  IF Cardinality(S) = 1 THEN x
        ELSE LET m == MinOf(S \ {x}) IN IF x < m THEN x ELSE m

\* the elements of a set of integers, ascending
RECURSIVE SortedSeq(_)
SortedSeq(S) ==
    IF S = {} THEN <<>>
    ELSE LET m == MinOf(S) IN <<m>> \o SortedSeq(S \ {m})

Range(s) == {s[i] : i \in DOMAIN s}

\* the last k elements of s (Python's s[-k:])
LastK(s, k) == IF Len(s) <= k THEN s ELSE SubSeq(s, Len(s) - k + 1, Len(s))

RECURSIVE Concat(_)
Concat(ss) == IF ss = <<>> THEN <<>> ELSE Head(ss) \o Concat(Tail(ss))

(***************************************************************************)
(* utils/formatters.py: pair codes.                                        *)
(***************************************************************************)
UPPER ==
    [a |-> "A", b |-> "B", c |-> "C", d |-> "D", e |-> "E", f |-> "F", g |-> "G",
     h |-> "H", i |-> "I", j |-> "J", k |-> "K", l |-> "L", m |-> "M", n |-> "N",
     o |-> "O", p |-> "P", q |-> "Q", r |-> "R", s |-> "S", t |-> "T", u |-> "U",
     v |-> "V", w |-> "W", x |-> "X", y |-> "Y", z |-> "Z"]

LOWER ==
    [A |-> "a", B |-> "b", C |-> "c", D |-> "d", E |-> "e", F |-> "f", G |-> "g",
     H |-> "h", I |-> "i", J |-> "j", K |-> "k", L |-> "l", M |-> "m", N |-> "n",
     O |-> "o", P |-> "p", Q |-> "q", R |-> "r", S |-> "s", T |-> "t", U |-> "u",
     V |-> "v", W |-> "w", X |-> "x", Y |-> "y", Z |-> "z"]

\* str.upper() and str.lower()
Upper(s) == [i \in DOMAIN s |-> IF s[i] \in DOMAIN UPPER THEN UPPER[s[i]] ELSE s[i]]
Lower(s) == [i \in DOMAIN s |-> IF s[i] \in DOMAIN LOWER THEN LOWER[s[i]] ELSE s[i]]

Separators == {"/", "-", "_", " "}

EUR == <<"E", "U", "R">>
USD == <<"U", "S", "D">>
JPY == <<"J", "P", "Y">>
GBP == <<"G", "B", "P">>

Slash(base, quote) == base \o <<"/">> \o quote

FOREX_PAIRS ==
    LET CHF == <<"C", "H", "F">>
        AUD == <<"A", "U", "D">>
        CAD == <<"C", "A", "D">>
        NZD == <<"N", "Z", "D">>
        SGD == <<"S", "G", "D">>
        HKD == <<"H", "K", "D">>
        ZAR == <<"Z", "A", "R">>
        MXN == <<"M", "X", "N">>
        TRY == <<"T", "R", "Y">>
    IN  [majors |-> {Slash(EUR, USD), Slash(USD, JPY), Slash(GBP, USD), Slash(USD, CHF),
                     Slash(AUD, USD), Slash(USD, CAD), Slash(NZD, USD)},
         minors |-> {Slash(EUR, GBP), Slash(EUR, AUD), Slash(EUR, CAD), Slash(EUR, CHF),
                     Slash(GBP, JPY), Slash(EUR, JPY), Slash(GBP, CHF), Slash(AUD, JPY),
                     Slash(NZD, JPY), Slash(CHF, JPY)},
         exotics |-> {Slash(USD, SGD), Slash(USD, HKD), Slash(USD, ZAR), Slash(USD, MXN),
                      Slash(USD, TRY), Slash(EUR, TRY), Slash(GBP, ZAR)}]

ALL_PAIRS == UNION {FOREX_PAIRS[c] : c \in DOMAIN FOREX_PAIRS}

\* the exception a rejected input raises (a value unlike every pair code)
ValueError == <<"ValueError">>

\* the 6-character code, or ValueError when the stripped text is not 6 long
normalize_pair_format(pair) ==
    LET normalized == SelectSeq(Upper(pair), LAMBDA c : c \notin Separators)
    IN  IF Len(normalized) # 6 THEN ValueError ELSE normalized

\* called on a value normalize_pair_format accepts
display_pair_format(pair) ==
    LET normalized == normalize_pair_format(pair)
    IN  IF normalized = ValueError THEN ValueError
        ELSE SubSeq(normalized, 1, 3) \o <<"/">> \o SubSeq(normalized, 4, 6)

validate_pair(pair) ==
    LET normalized == normalize_pair_format(pair)
    IN  IF normalized = ValueError THEN FALSE
        ELSE display_pair_format(normalized) \in ALL_PAIRS

\* pip sizes, in price units of 0.000001
PipStandard == 100
PipJpy == 10000

endswithJPY(normalized) == SubSeq(normalized, 4, 6) = JPY

get_pip_value(pair) ==
    IF endswithJPY(normalize_pair_format(pair)) THEN PipJpy ELSE PipStandard

\* round(price_difference / pip_value, 1): tenths of a pip, as a rational of pips
price_to_pips(price_difference, pair) ==
    Rat(RoundDiv(price_difference * 10, get_pip_value(pair)), 10)

(***************************************************************************)
(* utils/sessions.py.  A clock reading is [wd, t]: the weekday (0 = Monday *)
(* .. 6 = Sunday) and the minute of the day, UTC.                          *)
(***************************************************************************)
ASIAN == <<"a", "s", "i", "a", "n">>
LONDON == <<"l", "o", "n", "d", "o", "n">>
NY == <<"n", "y">>
AUTO == <<"a", "u", "t", "o">>

HHMM(h, m) == h * 60 + m

SESSIONS ==
    [k \in {ASIAN, LONDON, NY} |->
        IF k = ASIAN THEN [name |-> "Asian Session", start |-> HHMM(0, 0), end |-> HHMM(9, 0)]
        ELSE IF k = LONDON
        THEN [name |-> "London Session", start |-> HHMM(8, 0), end |-> HHMM(16, 0)]
        ELSE [name |-> "New York Session", start |-> HHMM(13, 0), end |-> HHMM(21, 0)]]

\* the order in which the SESSIONS dict is iterated
SessionOrder == <<ASIAN, LONDON, NY>>

\* whether the time of day t lies in the window of session k
InSessionWindow(k, t) ==
    LET start == SESSIONS[k].start
        end == SESSIONS[k].end
    IN  IF start < end THEN start <= t /\ t < end
        ELSE t >= start \/ t < end

CLOSED == <<"c", "l", "o", "s", "e", "d">>

\* get_current_session that returns the last window holding the time
get_current_session_latest(dt) ==
    LET hits == SelectSeq(SessionOrder, LAMBDA k : InSessionWindow(k, dt.t))
    IN  IF hits # <<>> THEN hits[Len(hits)] ELSE CLOSED

get_current_session(dt) ==
    LET hits == SelectSeq(SessionOrder, LAMBDA k : InSessionWindow(k, dt.t))
    IN  IF hits # <<>> THEN Head(hits) ELSE CLOSED

\* the key of the next session to start (the start datetime is not modelled)
get_next_session(dt) ==
    LET later == SelectSeq(SessionOrder, LAMBDA k : dt.t < SESSIONS[k].start)
    IN  IF later # <<>> THEN Head(later) ELSE ASIAN

\* the start get_next_session returns with the key, in minutes from the midnight
\* that opens the day of dt
get_next_session_start(dt) ==
    LET later == SelectSeq(SessionOrder, LAMBDA k : dt.t < SESSIONS[k].start)
    IN  IF later # <<>> THEN SESSIONS[Head(later)].start
        ELSE HHMM(24, 0) + SESSIONS[ASIAN].start

get_session_info(session_key) ==
    IF session_key \notin DOMAIN SESSIONS THEN ValueError ELSE SESSIONS[session_key]

\* is_weekend with the Friday close taken as strictly after 21:00
is_weekend_late_friday(dt) ==
    \/ dt.wd = 4 /\ dt.t > HHMM(21, 0)
    \/ dt.wd = 5
    \/ dt.wd = 6 /\ dt.t < HHMM(22, 0)

is_weekend(dt) ==
    \/ dt.wd = 4 /\ dt.t >= HHMM(21, 0)
    \/ dt.wd = 5
    \/ dt.wd = 6 /\ dt.t < HHMM(22, 0)

(***************************************************************************)
(* utils/formatters.py: classification and guidance.                       *)
(***************************************************************************)
\* session multipliers, in tenths
\* session_multiplier that looks the label up without lower-casing it
session_multiplier_case_sensitive(session) ==
    IF session = ASIAN THEN 7
    ELSE IF session = LONDON THEN 12
    ELSE IF session = NY THEN 11
    ELSE 10

session_multiplier(session) ==
    LET s == Lower(session)
    IN  IF s = ASIAN THEN 7
        ELSE IF s = LONDON THEN 12
        ELSE IF s = NY THEN 11
        ELSE 10

classify_volatility(expected_pips, pair, session) ==
    LET normalized == normalize_pair_format(pair)
        low_threshold == IF endswithJPY(normalized) THEN 25 ELSE 15
        high_threshold == IF endswithJPY(normalized) THEN 60 ELSE 35
        multiplier == session_multiplier(session)
        adjusted_low == Rat(low_threshold * multiplier, 10)
        adjusted_high == Rat(high_threshold * multiplier, 10)
    IN  IF RatLT(expected_pips, adjusted_low) THEN "Low"
        ELSE IF RatLT(expected_pips, adjusted_high) THEN "Medium"
        ELSE "High"

\* generate_agent_guidance testing the compressed-range rule before the tier rules
generate_agent_guidance_compression_first(volatility_level, expansion_rate, is_compressed, has_event) ==
    IF is_compressed /\ RatLT(Rat(5, 10), expansion_rate)
    THEN "Compressed range suggests coiled spring; monitor for breakout in direction of higher timeframe trend."
    ELSE IF volatility_level = "High" /\ has_event
    THEN "High-impact event expected; consider wider stops and wait for initial volatility to settle before entering."
    ELSE IF volatility_level = "Low" /\ RatLT(expansion_rate, Rat(4, 10))
    THEN "Range-bound conditions likely; favor mean-reversion strategies with tight stops."
    ELSE IF volatility_level = "Medium"
    THEN "Moderate volatility expected; standard risk management applies. Watch for direction confirmation."
    ELSE IF has_event /\ RatLT(expansion_rate, Rat(5, 10))
    THEN "Event scheduled but historical expansion limited; consider reduced position sizing and avoid early entries."
    ELSE "Mixed signals; wait for clearer price action confirmation before entering positions."

generate_agent_guidance(volatility_level, expansion_rate, is_compressed, has_event) ==
    IF volatility_level = "High" /\ RatLT(Rat(6, 10), expansion_rate) /\ is_compressed
    THEN "Avoid mean-reversion strategies; favor breakout or momentum confirmation setups."
    ELSE IF volatility_level = "High" /\ has_event
    THEN "High-impact event expected; consider wider stops and wait for initial volatility to settle before entering."
    ELSE IF volatility_level = "Low" /\ RatLT(expansion_rate, Rat(4, 10))
    THEN "Range-bound conditions likely; favor mean-reversion strategies with tight stops."
    ELSE IF is_compressed /\ RatLT(Rat(5, 10), expansion_rate)
    THEN "Compressed range suggests coiled spring; monitor for breakout in direction of higher timeframe trend."
    ELSE IF volatility_level = "Medium"
    THEN "Moderate volatility expected; standard risk management applies. Watch for direction confirmation."
    ELSE IF has_event /\ RatLT(expansion_rate, Rat(5, 10))
    THEN "Event scheduled but historical expansion limited; consider reduced position sizing and avoid early entries."
    ELSE "Mixed signals; wait for clearer price action confirmation before entering positions."

\* format_session_output echoing the pair code it was given
format_session_output_raw_pair(pair, session, time_window_minutes, expected_deviation_pips, confidence, drivers, historical_context, volatility_level, agent_guidance) ==
    [pair |-> pair,
     session |-> session,
     time_window_minutes |-> time_window_minutes,
     volatility_expectation |-> volatility_level,
     expected_deviation_pips |-> Round(expected_deviation_pips, 10),
     confidence |-> Round(confidence, 100),
     drivers |-> drivers,
     historical_context |->
        [similar_conditions_occurrences |->
            historical_context.similar_conditions_occurrences,
         expansion_rate |-> Round(historical_context.expansion_rate, 100)],
     agent_guidance |-> agent_guidance]

\* the orchestrator always passes volatility_level and agent_guidance, so the
\* auto-generation of missing fields is not modelled.  expected_deviation_pips is
\* stored in tenths of a pip, confidence and expansion_rate in hundredths.
format_session_output(pair, session, time_window_minutes, expected_deviation_pips, confidence, drivers, historical_context, volatility_level, agent_guidance) ==
    [pair |-> display_pair_format(pair),
     session |-> session,
     time_window_minutes |-> time_window_minutes,
     volatility_expectation |-> volatility_level,
     expected_deviation_pips |-> Round(expected_deviation_pips, 10),
     confidence |-> Round(confidence, 100),
     drivers |-> drivers,
     historical_context |->
        [similar_conditions_occurrences |->
            historical_context.similar_conditions_occurrences,
         expansion_rate |-> Round(historical_context.expansion_rate, 100)],
     agent_guidance |-> agent_guidance]

(***************************************************************************)
(* analysis/range_calculator.py.  A candle is [ts, open, high, low, close];*)
(* a series (DataFrame) is a sequence of candles in ascending ts order.    *)
(* The pair of the RangeCalculator object is passed as a parameter.        *)
(***************************************************************************)
MinutesPerDay == 1440

DateOf(c) == c.ts \div MinutesPerDay
TimeOf(c) == c.ts % MinutesPerDay

\* Series.unique(): the dates of df in order of first appearance
RECURSIVE UniqueDates(_)
UniqueDates(df) ==
    IF df = <<>> THEN <<>>
    ELSE LET front == UniqueDates(SubSeq(df, 1, Len(df) - 1))
             d == DateOf(df[Len(df)])
         IN  IF d \in Range(front) THEN front ELSE Append(front, d)

\* DataFrame.groupby('date'): <<date, rows of that date>>, dates ascending
GroupByDate(df) ==
    LET dates == SortedSeq({DateOf(df[i]) : i \in DOMAIN df})
    IN  [i \in DOMAIN dates |->
            [date |-> dates[i],
             day_df |-> SelectSeq(df, LAMBDA c : DateOf(c) = dates[i])]]

calculate_range_pips(pair, df) ==
    IF df = <<>> THEN RatInt(0)
    ELSE LET high == MaxOf({df[i].high : i \in DOMAIN df})
             low == MinOf({df[i].low : i \in DOMAIN df})
         IN  price_to_pips(high - low, pair)

\* filter_pre_session selecting by time of day, so that the window wraps past midnight
filter_pre_session_by_time_of_day(df, session_start, minutes_before) ==
    SelectSeq(df, LAMBDA c :
        (TimeOf(c) - (session_start - minutes_before)) % MinutesPerDay < minutes_before)

filter_pre_session(df, session_start, minutes_before) ==
    LET dates == UniqueDates(df)
    IN  IF Len(dates) = 0 THEN <<>>
        ELSE LET recent_date == dates[Len(dates)]
                 session_start_dt == recent_date * MinutesPerDay + session_start
                 window_start_dt == session_start_dt - minutes_before
             IN  SelectSeq(df, LAMBDA c : c.ts >= window_start_dt /\ c.ts < session_start_dt)

filter_session(df, session_start, session_end) ==
    IF session_start < session_end
    THEN SelectSeq(df, LAMBDA c : TimeOf(c) >= session_start /\ TimeOf(c) < session_end)
    ELSE SelectSeq(df, LAMBDA c : TimeOf(c) >= session_start \/ TimeOf(c) < session_end)

calculate_pre_session_range(pair, df, session_start_time, minutes_before) ==
    calculate_range_pips(pair, filter_pre_session(df, session_start_time, minutes_before))

calculate_session_range(pair, df, session_start_time, session_end_time) ==
    calculate_range_pips(pair, filter_session(df, session_start_time, session_end_time))

RECURSIVE RatSum(_)
RatSum(s) == IF s = <<>> THEN RatInt(0) ELSE RatAdd(Head(s), RatSum(Tail(s)))

\* np.mean of a non-empty list
Mean(s) == RatDiv(RatSum(s), RatInt(Len(s)))

calculate_30day_avg_range(pair, historical_df, session_start_time, minutes_window, is_pre_session) ==
    LET groups == GroupByDate(historical_df)
        session_end == (session_start_time + minutes_window) % MinutesPerDay
        range_pips(day_df) ==
            IF is_pre_session
            THEN calculate_pre_session_range(pair, day_df, session_start_time, minutes_window)
            ELSE calculate_session_range(pair, day_df, session_start_time, session_end)
        all_ranges == [i \in DOMAIN groups |-> range_pips(groups[i].day_df)]
        daily_ranges == SelectSeq(all_ranges, LAMBDA r : r.n > 0)
    IN  IF daily_ranges = <<>> THEN RatInt(0) ELSE Mean(daily_ranges)

\* detect_compression with a strict comparison
detect_compression_strict(current_range, avg_range, threshold) ==
    IF avg_range.n = 0 THEN [is_compressed |-> FALSE, ratio |-> RatInt(1)]
    ELSE LET ratio == RatDiv(current_range, avg_range)
         IN  [is_compressed |-> RatLT(ratio, threshold),
              ratio |-> Rat(Round(ratio, 100), 100)]

detect_compression(current_range, avg_range, threshold) ==
    IF avg_range.n = 0 THEN [is_compressed |-> FALSE, ratio |-> RatInt(1)]
    ELSE LET ratio == RatDiv(current_range, avg_range)
         IN  [is_compressed |-> RatLE(ratio, threshold),
              ratio |-> Rat(Round(ratio, 100), 100)]

DefaultCompressionThreshold == Rat(7, 10)
MinExpectedDeviation == RatInt(10)

\* calculate_expected_deviation without the final floor
calculate_expected_deviation_no_floor(current_pre_range, avg_pre_range, historical_expansion_rate, avg_session_range) ==
    LET c == detect_compression(current_pre_range, avg_pre_range, DefaultCompressionThreshold)
    IN  IF c.is_compressed
        THEN RatAdd(avg_session_range,
                    RatMul(RatMul(RatSub(avg_pre_range, current_pre_range),
                                  historical_expansion_rate), Rat(15, 10)))
        ELSE avg_session_range

\* calculate_expected_deviation without the factor 1.5 on the expansion
calculate_expected_deviation_unscaled(current_pre_range, avg_pre_range, historical_expansion_rate, avg_session_range) ==
    LET c == detect_compression(current_pre_range, avg_pre_range, DefaultCompressionThreshold)
        expected ==
            IF c.is_compressed
            THEN RatAdd(avg_session_range,
                        RatMul(RatSub(avg_pre_range, current_pre_range),
                               historical_expansion_rate))
            ELSE avg_session_range
    IN  RatMax(expected, MinExpectedDeviation)

calculate_expected_deviation(current_pre_range, avg_pre_range, historical_expansion_rate, avg_session_range) ==
    LET c == detect_compression(current_pre_range, avg_pre_range, DefaultCompressionThreshold)
        compression_amount == RatSub(avg_pre_range, current_pre_range)
        expected_expansion ==
            RatMul(RatMul(compression_amount, historical_expansion_rate), Rat(15, 10))
        expected ==
            IF c.is_compressed THEN RatAdd(avg_session_range, expected_expansion)
            ELSE avg_session_range
    IN  RatMax(expected, MinExpectedDeviation)

(***************************************************************************)
(* analysis/pattern_matcher.py.                                            *)
(***************************************************************************)
PreSessionMinutes == 90
MatchedDatesKept == 10

NoMatches ==
    [similar_conditions_occurrences |-> 0,
     expansion_rate |-> Rat(5, 10),
     avg_expansion_pips |-> RatInt(0),
     matched_dates |-> <<>>]

\* DayMatch that judges the expansion against the average pre-session range
DayMatch_expansion_against_average(pair, avg_pre_range, lower_bound, upper_bound, g, session_start, session_end) ==
    LET pre_range ==
            calculate_pre_session_range(pair, g.day_df, session_start, PreSessionMinutes)
        day_ratio == RatDiv(pre_range, avg_pre_range)
        session_range == calculate_session_range(pair, g.day_df, session_start, session_end)
    IN  IF pre_range.n = 0 THEN <<>>
        ELSE IF RatLE(lower_bound, day_ratio) /\ RatLE(day_ratio, upper_bound)
        THEN <<[date |-> g.date,
                pre_range |-> pre_range,
                session_range |-> session_range,
                expanded |-> RatLT(RatMul(avg_pre_range, Rat(15, 10)), session_range),
                expansion_pips |-> RatSub(session_range, pre_range)]>>
        ELSE <<>>

\* the record appended to matches for one day, or <<>> when the day is skipped
DayMatch(pair, avg_pre_range, lower_bound, upper_bound, g, session_start, session_end) ==
    LET pre_range ==
            calculate_pre_session_range(pair, g.day_df, session_start, PreSessionMinutes)
        day_ratio == RatDiv(pre_range, avg_pre_range)
        session_range == calculate_session_range(pair, g.day_df, session_start, session_end)
    IN  IF pre_range.n = 0 THEN <<>>
        ELSE IF RatLE(lower_bound, day_ratio) /\ RatLE(day_ratio, upper_bound)
        THEN <<[date |-> g.date,
                pre_range |-> pre_range,
                session_range |-> session_range,
                expanded |-> RatLT(RatMul(pre_range, Rat(15, 10)), session_range),
                expansion_pips |-> RatSub(session_range, pre_range)]>>
        ELSE <<>>

\* find_similar_conditions that keeps the first matches instead of the last
find_similar_conditions_oldest(pair, current_pre_range, avg_pre_range, historical_df, session_start, session_end, threshold) ==
    IF avg_pre_range.n = 0 THEN NoMatches
    ELSE
    LET current_ratio == RatDiv(current_pre_range, avg_pre_range)
        groups == GroupByDate(historical_df)
        matches ==
            Concat([i \in DOMAIN groups |->
                DayMatch(pair, avg_pre_range, RatSub(current_ratio, threshold),
                         RatAdd(current_ratio, threshold), groups[i],
                         session_start, session_end)])
        expansion_count == Len(SelectSeq(matches, LAMBDA m : m.expanded))
        avg_expansion == Mean([i \in DOMAIN matches |-> matches[i].expansion_pips])
        kept == IF Len(matches) < MatchedDatesKept THEN Len(matches) ELSE MatchedDatesKept
    IN  IF matches = <<>> THEN NoMatches
        ELSE [similar_conditions_occurrences |-> Len(matches),
              expansion_rate |-> Rat(Round(Rat(expansion_count, Len(matches)), 100), 100),
              avg_expansion_pips |-> Rat(Round(avg_expansion, 10), 10),
              matched_dates |-> [i \in 1..kept |-> matches[i].date]]

find_similar_conditions(pair, current_pre_range, avg_pre_range, historical_df, session_start, session_end, threshold) ==
    IF avg_pre_range.n = 0 THEN NoMatches
    ELSE
    LET current_ratio == RatDiv(current_pre_range, avg_pre_range)
        lower_bound == RatSub(current_ratio, threshold)
        upper_bound == RatAdd(current_ratio, threshold)
        groups == GroupByDate(historical_df)
        matches ==
            Concat([i \in DOMAIN groups |->
                DayMatch(pair, avg_pre_range, lower_bound, upper_bound, groups[i],
                         session_start, session_end)])
        expansion_count == Len(SelectSeq(matches, LAMBDA m : m.expanded))
        expansion_rate == Rat(expansion_count, Len(matches))
        avg_expansion == Mean([i \in DOMAIN matches |-> matches[i].expansion_pips])
    IN  IF matches = <<>> THEN NoMatches
        ELSE [similar_conditions_occurrences |-> Len(matches),
              expansion_rate |-> Rat(Round(expansion_rate, 100), 100),
              avg_expansion_pips |-> Rat(Round(avg_expansion, 10), 10),
              matched_dates |->
                  LastK([i \in DOMAIN matches |-> matches[i].date], MatchedDatesKept)]

(***************************************************************************)
(* analysis/confidence_scorer.py.                                          *)
(***************************************************************************)
WEIGHTS ==
    [sample_size |-> Rat(40, 100),
     pattern_strength |-> Rat(25, 100),
     event_catalyst |-> Rat(20, 100),
     data_quality |-> Rat(15, 100)]

SampleTarget == 120
ConfidenceCap == Rat(85, 100)

\* what a division by zero raises
ZeroDivisionError == [error |-> "ZeroDivisionError"]

sample_score(occurrences) ==
    RatMul(RatMin(Rat(occurrences, SampleTarget), RatInt(1)), WEIGHTS.sample_size)

pattern_score(expansion_rate) ==
    RatMul(RatMul(RatAbs(RatSub(expansion_rate, Rat(5, 10))), RatInt(2)),
           WEIGHTS.pattern_strength)

event_score(has_event) == IF has_event THEN WEIGHTS.event_catalyst ELSE RatInt(0)

\* for max_data_age # 0
data_score(data_age_days, max_data_age) ==
    RatMul(RatMax(RatInt(0), RatSub(RatInt(1), Rat(data_age_days, max_data_age))),
           WEIGHTS.data_quality)

\* calculate_confidence that forgets the cap on the sum
calculate_confidence_uncapped(occurrences, expansion_rate, has_event, data_age_days, max_data_age) ==
    IF max_data_age = 0 THEN ZeroDivisionError
    ELSE
    LET total ==
            RatAdd(RatAdd(sample_score(occurrences), pattern_score(expansion_rate)),
                   RatAdd(event_score(has_event), data_score(data_age_days, max_data_age)))
    IN  Rat(Round(total, 100), 100)

calculate_confidence(occurrences, expansion_rate, has_event, data_age_days, max_data_age) ==
    IF max_data_age = 0 THEN ZeroDivisionError
    ELSE
    LET total ==
            RatAdd(RatAdd(sample_score(occurrences), pattern_score(expansion_rate)),
                   RatAdd(event_score(has_event), data_score(data_age_days, max_data_age)))
    IN  Rat(Round(RatMin(total, ConfidenceCap), 100), 100)


\* get_confidence_breakdown whose total is made of the rounded components
get_confidence_breakdown_of_rounded(occurrences, expansion_rate, has_event, data_age_days, max_data_age) ==
    IF max_data_age = 0 THEN ZeroDivisionError
    ELSE
    LET sample == Rat(Round(sample_score(occurrences), 1000), 1000)
        pattern == Rat(Round(pattern_score(expansion_rate), 1000), 1000)
        event == Rat(Round(event_score(has_event), 1000), 1000)
        data == Rat(Round(data_score(data_age_days, max_data_age), 1000), 1000)
    IN  [sample_size_score |-> sample,
         pattern_strength_score |-> pattern,
         event_catalyst_score |-> event,
         data_quality_score |-> data,
         total |-> Rat(Round(RatMin(RatAdd(RatAdd(sample, pattern), RatAdd(event, data)),
                                    ConfidenceCap), 100), 100)]

get_confidence_breakdown(occurrences, expansion_rate, has_event, data_age_days, max_data_age) ==
    IF max_data_age = 0 THEN ZeroDivisionError
    ELSE
    LET sample_component == sample_score(occurrences)
        pattern_component == pattern_score(expansion_rate)
        event_component == event_score(has_event)
        data_component == data_score(data_age_days, max_data_age)
    IN  [sample_size_score |-> Rat(Round(sample_component, 1000), 1000),
         pattern_strength_score |-> Rat(Round(pattern_component, 1000), 1000),
         event_catalyst_score |-> Rat(Round(event_component, 1000), 1000),
         data_quality_score |-> Rat(Round(data_component, 1000), 1000),
         total |-> Rat(Round(RatMin(RatAdd(RatAdd(sample_component, pattern_component),
                                           RatAdd(event_component, data_component)),
                                    ConfidenceCap), 100), 100)]

DefaultAdjustmentFactor == Rat(10, 100)

\* the adjustment of the regime the ratio of the ATRs falls in
regime_adjustment(volatility_ratio, adjustment_factor) ==
    IF RatLT(Rat(15, 10), volatility_ratio) \/ RatLT(volatility_ratio, Rat(5, 10))
    THEN RatSub(RatInt(0), adjustment_factor)
    ELSE IF RatLE(Rat(8, 10), volatility_ratio) /\ RatLE(volatility_ratio, Rat(12, 10))
    THEN RatMul(adjustment_factor, Rat(5, 10))
    ELSE RatInt(0)

\* adjust_for_volatility_regime that does not clamp the sum
adjust_for_volatility_regime_unclamped(base_confidence, current_atr, avg_atr, adjustment_factor) ==
    IF avg_atr.n = 0 THEN base_confidence
    ELSE LET adjusted ==
                 RatAdd(base_confidence,
                        regime_adjustment(RatDiv(current_atr, avg_atr), adjustment_factor))
         IN  Rat(Round(adjusted, 100), 100)

adjust_for_volatility_regime(base_confidence, current_atr, avg_atr, adjustment_factor) ==
    IF avg_atr.n = 0 THEN base_confidence
    ELSE LET adjusted ==
                 RatAdd(base_confidence,
                        regime_adjustment(RatDiv(current_atr, avg_atr), adjustment_factor))
         IN  Rat(Round(RatMax(RatInt(0), RatMin(adjusted, ConfidenceCap)), 100), 100)

(***************************************************************************)
(* Market data the candle source may hold.  A day of candles is one of a   *)
(* few shapes; priceScale is the size of the instrument's price moves      *)
(* (1 for pairs quoted near 1.0, 100 for pairs quoted near 100).           *)
(***************************************************************************)
PriceScales == {1, 100}

Candle(day, t, low, high, scale) ==
    [ts |-> day * MinutesPerDay + t,
     open |-> (10000 + low) * scale,
     high |-> (10000 + high) * scale,
     low |-> (10000 + low) * scale,
     close |-> (10000 + high) * scale]

DayKinds == {"coiled", "wide", "gap"}

\* one calendar day of candles
DayCandles(kind, day, scale) ==
    IF kind = "coiled"
    THEN <<Candle(day, HHMM(0, 30), -600, 900, scale),
           Candle(day, HHMM(7, 0), 0, 800, scale),
           Candle(day, HHMM(8, 30), -1500, 2500, scale),
           Candle(day, HHMM(12, 0), 0, 1000, scale),
           Candle(day, HHMM(14, 0), -2000, 3000, scale),
           Candle(day, HHMM(23, 0), 0, 500, scale)>>
    ELSE IF kind = "wide"
    THEN <<Candle(day, HHMM(7, 0), -1500, 2555, scale),
           Candle(day, HHMM(8, 30), 0, 2000, scale),
           Candle(day, HHMM(12, 0), -1000, 2000, scale),
           Candle(day, HHMM(14, 0), 0, 1500, scale)>>
    ELSE <<Candle(day, HHMM(8, 30), -400, 700, scale),
           Candle(day, HHMM(14, 0), -300, 900, scale)>>

\* the series of a sequence of day kinds, the first on day 1
SeriesOf(kinds, scale) ==
    Concat([i \in DOMAIN kinds |-> DayCandles(kinds[i], i, scale)])

KindSeqs(maxLen) == UNION {[1..k -> DayKinds] : k \in 0..maxLen}

IntradayKinds == {"tight", "broad", "early"}

\* the recent candles: the end of day `today - 1` and the start of day `today`
IntradayCandles(kind, today, scale) ==
    IF kind = "tight"
    THEN <<Candle(today - 1, HHMM(23, 0), 0, 300, scale),
           Candle(today, HHMM(7, 0), 0, 500, scale),
           Candle(today, HHMM(12, 0), 0, 600, scale)>>
    ELSE IF kind = "broad"
    THEN <<Candle(today - 1, HHMM(23, 0), -1000, 2000, scale),
           Candle(today, HHMM(7, 0), -2000, 2000, scale),
           Candle(today, HHMM(12, 0), -2000, 2500, scale)>>
    ELSE <<Candle(today, HHMM(0, 30), 0, 400, scale)>>

(***************************************************************************)
(* data/calendar_client.py: what check_event_proximity may hand back.      *)
(***************************************************************************)
NoEvent == [event |-> "None", hour |-> 0, source |-> "none"]
NFP == [event |-> "US Non-Farm Payrolls (NFP)", hour |-> 13, source |-> "heuristic"]
CalendarAnswers == {NoEvent, NFP}

format_event_for_driver(event) ==
    LET session ==
            IF 0 <= event.hour /\ event.hour < 9 THEN "Asian session"
            ELSE IF 8 <= event.hour /\ event.hour < 16 THEN "London session"
            ELSE IF 13 <= event.hour /\ event.hour < 21 THEN "NY session"
            ELSE "off-hours"
    IN  [kind |-> "event", a |-> event.event, b |-> session]

(***************************************************************************)
(* tools/session_analyzer.py: SessionAnalyzer.                             *)
(***************************************************************************)
VARIABLES
    pc,             \* where the request stands
    now,            \* the clock reading of the request
    pair,           \* the pair argument
    target_session, \* the session selector argument
    session_key,    \* the resolved session
    intraday_df,    \* the recent candles fetched
    historical_df,  \* the historical candles fetched
    analysis,       \* the values of steps 3 to 7
    result,         \* the dict returned
    error,          \* the exception raised
    log,            \* the collaborator calls and pipeline stages run, in order
    priceScale,     \* the price scale of the candle source
    calendar_answer, \* what check_event_proximity returned
    client,         \* the TwelveDataClient singleton shared by all requests
    prev,           \* the previous call and its outcome, when a call is repeated
    cs,             \* a call of ConfidenceScorer.calculate_confidence and its value
    pm,             \* a candle history and a call of find_similar_conditions on it
    cache,          \* DataFetcher._cache
    intel,          \* a call of build_intel
    req,            \* the requests running at once: where each stands in its fetches
    touched,        \* the fields of the shared client each request has read or written
    call            \* one call of an operation of the analysis classes, and its value

None == [none |-> TRUE]

(***************************************************************************)
(* data/twelve_data_client.py: the rate limiting of TwelveDataClient.  The *)
(* clock is kept as reset_due (now >= daily_reset_time) and the time of    *)
(* the last request as 0 (never) or 1 (the time of some request).          *)
(***************************************************************************)
\* the fetches of one analysis: intraday and historical
RequestsPerCall == 2

\* _check_rate_limit, lines 46-52: the daily counter starts again
check_rate_limit(c) ==
    IF c.reset_due THEN [c EXCEPT !.daily_request_count = 0, !.reset_due = FALSE] ELSE c

\* _check_rate_limit, lines 54-59: whether the daily limit raises
limit_reached(c) ==
    check_rate_limit(c).daily_request_count >= c.max_requests_per_day

\* responded that counts the response twice
responded_counted_twice(c) ==
    [check_rate_limit(c) EXCEPT !.daily_request_count = @ + 2, !.last_request_time = 1]

\* _make_request, lines 87-89: a response has come back
responded(c) ==
    [check_rate_limit(c) EXCEPT !.daily_request_count = @ + 1, !.last_request_time = 1]

weekend_response(p) ==
    [pair |-> p,
     session |-> "Market Closed",
     time_window_minutes |-> 0,
     volatility_expectation |-> "None",
     expected_deviation_pips |-> 0,
     confidence |-> 0,
     drivers |-> <<[kind |-> "closed", a |-> "Forex market closed for weekend", b |-> ""],
                   [kind |-> "closed", a |-> "Market reopens Sunday 22:00 UTC", b |-> ""]>>,
     historical_context |-> [similar_conditions_occurrences |-> 0, expansion_rate |-> 0],
     agent_guidance |-> "Wait for market open. Review weekly levels and news during closure."]

\* lines 73-86: the session to analyse, or ValueError
resolve_session(selector, dt) ==
    IF Lower(selector) = AUTO
    THEN LET current_session == get_current_session(dt)
         IN  IF current_session # CLOSED THEN current_session ELSE get_next_session(dt)
    ELSE IF Lower(selector) \notin DOMAIN SESSIONS THEN ValueError
    ELSE Lower(selector)

get_session_duration(start, end) ==
    IF end < start THEN end + MinutesPerDay - start ELSE end - start

\* a driver is [kind, a, b]; the numbers are the ones the text carries
generate_drivers(current_pre_range, avg_pre_range, compression_ratio, is_compressed, event, pattern_results) ==
    LET range_driver ==
            IF is_compressed
            THEN [kind |-> "range_compressed",
                  a |-> Round(current_pre_range, 1), b |-> Round(avg_pre_range, 1)]
            ELSE [kind |-> "range_status",
                  a |-> Round(current_pre_range, 1), b |-> Round(compression_ratio, 100)]
        event_drivers == IF event # NoEvent THEN <<format_event_for_driver(event)>> ELSE <<>>
        expansion_rate == pattern_results.expansion_rate
        occurrences == pattern_results.similar_conditions_occurrences
        pattern_driver ==
            IF is_compressed /\ RatLT(Rat(6, 10), expansion_rate)
            THEN [kind |-> "pattern_expansion",
                  a |-> (expansion_rate.n * 100) \div expansion_rate.d, b |-> occurrences]
            ELSE IF RatLT(expansion_rate, Rat(4, 10))
            THEN [kind |-> "pattern_range_bound", a |-> occurrences, b |-> 0]
            ELSE [kind |-> "pattern_mixed", a |-> occurrences, b |-> 0]
    IN  <<range_driver>> \o event_drivers \o <<pattern_driver>>

DataAgeDays == 30
TimeWindowMinutes == 90
MaxDataAge == 60

\* steps 3 to 7 (lines 117-160)
analyse(p, key, intraday, historical) ==
    LET session_start == SESSIONS[key].start
        session_end == SESSIONS[key].end
        current_pre_range ==
            calculate_pre_session_range(p, intraday, session_start, PreSessionMinutes)
        avg_pre_range ==
            calculate_30day_avg_range(p, historical, session_start, PreSessionMinutes, TRUE)
        session_duration_minutes == get_session_duration(session_start, session_end)
        avg_session_range ==
            calculate_30day_avg_range(p, historical, session_start,
                                      session_duration_minutes, FALSE)
        c == detect_compression(current_pre_range, avg_pre_range, Rat(70, 100))
    IN  [current_pre_range |-> current_pre_range,
         avg_pre_range |-> avg_pre_range,
         avg_session_range |-> avg_session_range,
         is_compressed |-> c.is_compressed,
         compression_ratio |-> c.ratio,
         pattern_results |->
            find_similar_conditions(p, current_pre_range, avg_pre_range, historical,
                                    session_start, session_end, Rat(15, 100))]

\* steps 9 to 14 (lines 175-230), given the answer of the calendar
finish(p, key, a, nearby_event) ==
    LET has_event == nearby_event # NoEvent
        expected_deviation ==
            calculate_expected_deviation(a.current_pre_range, a.avg_pre_range,
                                         a.pattern_results.expansion_rate,
                                         a.avg_session_range)
        confidence ==
            calculate_confidence(a.pattern_results.similar_conditions_occurrences,
                                 a.pattern_results.expansion_rate, has_event,
                                 DataAgeDays, MaxDataAge)
        drivers ==
            generate_drivers(a.current_pre_range, a.avg_pre_range, a.compression_ratio,
                             a.is_compressed, nearby_event, a.pattern_results)
        volatility_level == classify_volatility(expected_deviation, p, key)
        agent_guidance ==
            generate_agent_guidance(volatility_level, a.pattern_results.expansion_rate,
                                    a.is_compressed, has_event)
    IN  format_session_output(p, SESSIONS[key].name, TimeWindowMinutes, expected_deviation,
                              confidence, drivers,
                              [similar_conditions_occurrences |->
                                   a.pattern_results.similar_conditions_occurrences,
                               expansion_rate |-> a.pattern_results.expansion_rate],
                              volatility_level, agent_guidance)

vars == <<pc, now, pair, target_session, session_key, intraday_df, historical_df,
          analysis, result, error, log, priceScale, calendar_answer, client, prev,
          cs, pm, cache, intel, call, req, touched>>

\* what one request of the orchestrator holds
analyserState == <<pc, now, pair, target_session, session_key, intraday_df, historical_df,
                   analysis, result, error, log, priceScale, calendar_answer>>

analyserVars_but_requests == <<analyserState, client, prev>>

analyserVars == <<pc, now, pair, target_session, session_key, intraday_df, historical_df,
                  analysis, result, error, log, priceScale, calendar_answer, client, prev,
                  req, touched, call>>
(***************************************************************************)
(* The requests tried.                                                     *)
(***************************************************************************)
PairInputs ==
    {<<"E", "U", "R", "/", "U", "S", "D">>,
     <<"e", "u", "r", "u", "s", "d">>,
     <<"e", "u", "r", "-", "u", "s", "d">>,
     <<"g", "b", "p", "_", "j", "p", "y">>,
     <<"X", "A", "U", "/", "U", "S", "D">>,
     <<"I", "N", "V", "A", "L", "I", "D", "/", "P", "A", "I", "R">>}

SelectorInputs ==
    {ASIAN, LONDON, NY, AUTO,
     <<"L", "o", "n", "d", "o", "n">>,
     <<"t", "o", "k", "y", "o">>}

Clocks ==
    {[wd |-> 2, t |-> HHMM(8, 30)], [wd |-> 2, t |-> HHMM(10, 0)],
     [wd |-> 2, t |-> HHMM(22, 0)], [wd |-> 4, t |-> HHMM(20, 59)],
     [wd |-> 4, t |-> HHMM(21, 0)], [wd |-> 5, t |-> HHMM(12, 0)],
     [wd |-> 6, t |-> HHMM(21, 59)], [wd |-> 6, t |-> HHMM(22, 0)]}

\* no request in progress
AnalyserIdle ==
    /\ pc = "idle"
    /\ now = [wd |-> 0, t |-> 0]
    /\ pair = <<>>
    /\ target_session = <<>>
    /\ session_key = <<>>
    /\ intraday_df = <<>>
    /\ historical_df = <<>>
    /\ analysis = None
    /\ result = None
    /\ error = "none"
    /\ log = <<>>
    /\ calendar_answer = None

\* TwelveDataClient.__init__ (lines 36-42) with a daily budget of max requests
NewClient(max) ==
    [max_requests_per_day |-> max,
     daily_request_count |-> 0,
     last_request_time |-> 0,
     reset_due |-> FALSE]

NoCall == [op |-> "none"]
CallsIdle == call = NoCall

\* the requests in flight at once on the one client
Requests == {1, 2}

RequestsIdle ==
    /\ req = [r \in Requests |-> [pc |-> "idle", step |-> "none", count |-> 0]]
    /\ touched = {}

\* the singleton with the smallest budget that lets one analysis complete
ClientIdle ==
    /\ client = NewClient(RequestsPerCall)
    /\ prev = None
    /\ RequestsIdle
    /\ CallsIdle

ScorerIdle ==
    cs = [occurrences |-> 0, expansion_rate |-> Rat(5, 10), has_event |-> FALSE,
          data_age_days |-> 30, max_data_age |-> 60, done |-> FALSE, out |-> None]

MatcherIdle == pm = [kinds |-> <<>>, done |-> FALSE, args |-> None, out |-> None]

EngineIdle ==
    /\ cache = <<>>
    /\ intel = [pc |-> "idle"]

Init ==
    /\ AnalyserIdle
    /\ ClientIdle
    /\ priceScale \in PriceScales
    /\ ScorerIdle
    /\ MatcherIdle
    /\ EngineIdle

\* lines 59-93: validation, the weekend check and the choice of the session
Accept(p, selector, clock) ==
    /\ now' = clock
    /\ pair' = p
    /\ target_session' = selector
    /\ intraday_df' = <<>>
    /\ historical_df' = <<>>
    /\ analysis' = None
    /\ calendar_answer' = None
    /\ log' = <<>>
    /\ IF ~validate_pair(p)
       THEN /\ pc' = "raised"
            /\ error' = "ValueError"
            /\ result' = None
            /\ session_key' = <<>>
       ELSE IF is_weekend(clock)
       THEN /\ pc' = "returned"
            /\ error' = "none"
            /\ result' = weekend_response(display_pair_format(normalize_pair_format(p)))
            /\ session_key' = <<>>
       ELSE IF resolve_session(selector, clock) = ValueError
       THEN /\ pc' = "raised"
            /\ error' = "ValueError"
            /\ result' = None
            /\ session_key' = <<>>
       ELSE /\ pc' = "fetch_intraday"
            /\ error' = "none"
            /\ result' = None
            /\ session_key' = resolve_session(selector, clock)
    /\ UNCHANGED <<priceScale, client, cs, pm, cache, intel, call, req, touched>>

\* analyze_forex_session is called
Request(p, selector, clock) ==
    /\ pc = "idle"
    /\ Accept(p, selector, clock)
    /\ UNCHANGED prev

\* lines 95-102: get_intraday_data returns
FetchIntraday(kind) ==
    /\ pc = "fetch_intraday"
    /\ ~limit_reached(client)
    /\ client' = responded(client)
    /\ intraday_df' = IntradayCandles(kind, MaxHistDays + 1, priceScale)
    /\ log' = Append(log, "get_intraday_data")
    /\ pc' = "fetch_historical"
    /\ UNCHANGED <<now, pair, target_session, session_key, historical_df, analysis,
                   result, error, priceScale, calendar_answer, prev,
                   cs, pm, cache, intel, call, req, touched>>

\* get_intraday_data raises and the fetch is tried again
FetchIntradayFailsRetried ==
    /\ pc = "fetch_intraday"
    /\ log' = Append(log, "get_intraday_data")
    /\ Len(log) < 2
    /\ pc' = "fetch_intraday"
    /\ error' = "Exception: Failed to fetch intraday data"
    /\ UNCHANGED <<now, pair, target_session, session_key, intraday_df, historical_df,
                   analysis, result, priceScale, calendar_answer, client, prev,
                   cs, pm, cache, intel, call, req, touched>>

\* lines 103-104: get_intraday_data raises because the request fails, before the
\* response is counted (a transport error) or after it (an error answer, no values)
FetchIntradayFails ==
    /\ pc = "fetch_intraday"
    /\ ~limit_reached(client)
    /\ client' \in {check_rate_limit(client), responded(client)}
    /\ log' = Append(log, "get_intraday_data")
    /\ pc' = "raised"
    /\ error' = "Exception: Failed to fetch intraday data"
    /\ UNCHANGED <<now, pair, target_session, session_key, intraday_df, historical_df,
                   analysis, result, priceScale, calendar_answer, prev,
                   cs, pm, cache, intel, call, req, touched>>

\* lines 103-104: get_intraday_data raises because the daily limit is reached
FetchIntradayLimited ==
    /\ pc = "fetch_intraday"
    /\ limit_reached(client)
    /\ client' = check_rate_limit(client)
    /\ log' = Append(log, "get_intraday_data")
    /\ pc' = "raised"
    /\ error' = "Exception: Failed to fetch intraday data: Daily API limit reached"
    /\ UNCHANGED <<now, pair, target_session, session_key, intraday_df, historical_df,
                   analysis, result, priceScale, calendar_answer, prev,
                   cs, pm, cache, intel, call, req, touched>>

\* lines 106-113: get_historical_sessions returns
FetchHistorical(kinds) ==
    /\ pc = "fetch_historical"
    /\ ~limit_reached(client)
    /\ client' = responded(client)
    /\ historical_df' = SeriesOf(kinds, priceScale)
    /\ log' = Append(log, "get_historical_sessions")
    /\ pc' = "analysis"
    /\ UNCHANGED <<now, pair, target_session, session_key, intraday_df, analysis,
                   result, error, priceScale, calendar_answer, prev,
                   cs, pm, cache, intel, call, req, touched>>

\* lines 114-115: get_historical_sessions raises because the request fails
FetchHistoricalFails ==
    /\ pc = "fetch_historical"
    /\ ~limit_reached(client)
    /\ client' \in {check_rate_limit(client), responded(client)}
    /\ log' = Append(log, "get_historical_sessions")
    /\ pc' = "raised"
    /\ error' = "Exception: Failed to fetch historical data"
    /\ UNCHANGED <<now, pair, target_session, session_key, intraday_df, historical_df,
                   analysis, result, priceScale, calendar_answer, prev,
                   cs, pm, cache, intel, call, req, touched>>

\* lines 114-115: get_historical_sessions raises because the daily limit is reached
FetchHistoricalLimited ==
    /\ pc = "fetch_historical"
    /\ limit_reached(client)
    /\ client' = check_rate_limit(client)
    /\ log' = Append(log, "get_historical_sessions")
    /\ pc' = "raised"
    /\ error' = "Exception: Failed to fetch historical data: Daily API limit reached"
    /\ UNCHANGED <<now, pair, target_session, session_key, intraday_df, historical_df,
                   analysis, result, priceScale, calendar_answer, prev,
                   cs, pm, cache, intel, call, req, touched>>

\* lines 117-166: the ranges, the compression and the pattern match
Analyse ==
    /\ pc = "analysis"
    /\ analysis' = analyse(normalize_pair_format(pair), session_key, intraday_df,
                           historical_df)
    /\ log' = Append(log, "analysis")
    /\ pc' = "calendar"
    /\ UNCHANGED <<now, pair, target_session, session_key, intraday_df, historical_df,
                   result, error, priceScale, calendar_answer, client, prev,
                   cs, pm, cache, intel, call, req, touched>>

\* lines 168-230: check_event_proximity returns and the result is built
CalendarReturns(event) ==
    /\ pc = "calendar"
    /\ calendar_answer' = event
    /\ log' = log \o <<"check_event_proximity", "scoring">>
    /\ result' = finish(normalize_pair_format(pair), session_key, analysis, event)
    /\ pc' = "returned"
    /\ UNCHANGED <<now, pair, target_session, session_key, intraday_df, historical_df,
                   analysis, error, priceScale, client, prev,
                   cs, pm, cache, intel, call, req, touched>>

\* lines 168-171: check_event_proximity raises; nothing catches it
CalendarFails ==
    /\ pc = "calendar"
    /\ log' = Append(log, "check_event_proximity")
    /\ pc' = "raised"
    /\ error' = "Exception: calendar lookup"
    /\ UNCHANGED <<now, pair, target_session, session_key, intraday_df, historical_df,
                   analysis, result, priceScale, calendar_answer, client, prev,
                   cs, pm, cache, intel, call, req, touched>>

\* the caller has the outcome; the analyser is ready for the next request
NextRequest ==
    /\ pc \in {"returned", "raised"}
    /\ pc' = "idle"
    /\ now' = [wd |-> 0, t |-> 0]
    /\ pair' = <<>>
    /\ target_session' = <<>>
    /\ session_key' = <<>>
    /\ intraday_df' = <<>>
    /\ historical_df' = <<>>
    /\ analysis' = None
    /\ calendar_answer' = None
    /\ result' = None
    /\ error' = "none"
    /\ log' = <<>>
    /\ UNCHANGED <<priceScale, client, prev, cs, pm, cache, intel, call, req, touched>>

\* the clock passes daily_reset_time.  Once the last fetch of a request is made
\* nothing reads the clock until the next request, so only the moments before a
\* fetch are told apart.
DayPasses ==
    /\ pc \in {"idle", "fetch_intraday", "fetch_historical"}
    /\ ~client.reset_due
    /\ client' = [client EXCEPT !.reset_due = TRUE]
    /\ UNCHANGED <<pc, now, pair, target_session, session_key, intraday_df,
                   historical_df, analysis, result, error, log, priceScale,
                   calendar_answer, prev, cs, pm, cache, intel, call, req, touched>>

Next ==
    \/ \E p \in PairInputs, selector \in SelectorInputs, clock \in Clocks :
          Request(p, selector, clock)
    \/ \E kind \in IntradayKinds : FetchIntraday(kind)
    \/ FetchIntradayFails
    \/ FetchIntradayLimited
    \/ \E kinds \in KindSeqs(MaxHistDays) : FetchHistorical(kinds)
    \/ FetchHistoricalFails
    \/ FetchHistoricalLimited
    \/ Analyse
    \/ \E event \in CalendarAnswers : CalendarReturns(event)
    \/ CalendarFails
    \/ NextRequest
    \/ DayPasses

Spec == Init /\ [][Next]_vars

(***************************************************************************)
(* Properties of analyze_forex_session.                                    *)
(***************************************************************************)
\* the weekend closure as documented: Friday from 21:00, Saturday, Sunday before 22:00
InWeekendWindow(dt) ==
    \/ dt.wd = 4 /\ dt.t >= 21 * 60
    \/ dt.wd = 5
    \/ dt.wd = 6 /\ dt.t < 22 * 60

KnownSelectors == {ASIAN, LONDON, NY, AUTO}

ResultFields ==
    {"pair", "session", "time_window_minutes", "volatility_expectation",
     "expected_deviation_pips", "confidence", "drivers", "historical_context",
     "agent_guidance"}

LettersOf(text) == SelectSeq(text, LAMBDA c : c \notin Separators)

\* C1: a request for a supported pair made inside the weekend window returns the
\* Market Closed result with confidence 0 and expected deviation 0, whatever the
\* selector, and calls neither candle fetch nor the calendar.
C1_WeekendShortCircuit ==
    (pc # "idle" /\ validate_pair(pair) /\ InWeekendWindow(now)) =>
        /\ pc = "returned"
        /\ result.session = "Market Closed"
        /\ result.confidence = 0
        /\ result.expected_deviation_pips = 0
        /\ log = <<>>

C1_Witness ==
    /\ pc = "returned"
    /\ now = [wd |-> 4, t |-> HHMM(21, 0)]
    /\ target_session = <<"t", "o", "k", "y", "o">>
    /\ result.session = "Market Closed"

\* C2: a request with an unsupported pair or a selector that is none of asian,
\* london, ny, auto always ends in a ValueError, without a result and without a
\* call to a collaborator, at any time of the week.
C2_InvalidInputRejected ==
    (pc # "idle" /\ (~validate_pair(pair) \/ Lower(target_session) \notin KnownSelectors)) =>
        /\ pc = "raised"
        /\ error = "ValueError"
        /\ result = None
        /\ log = <<>>

\* C4: every result has the nine fields, a confidence in [0, 1], a non-negative
\* expected deviation, at least one driver, and the pair in the form XXX/YYY
\* made of the letters of the pair that was passed in.
C4_ResultShape ==
    pc = "returned" =>
        /\ DOMAIN result = ResultFields
        /\ 0 <= result.confidence /\ result.confidence <= 100
        /\ result.expected_deviation_pips >= 0
        /\ Len(result.drivers) >= 1
        /\ Len(result.pair) = 7
        /\ result.pair[4] = "/"
        /\ LettersOf(result.pair) = Upper(LettersOf(pair))

C4_Witness ==
    /\ pc = "returned"
    /\ pair = <<"g", "b", "p", "_", "j", "p", "y">>
    /\ result.session = "London Session"
    /\ result.pair = Slash(GBP, JPY)
    /\ Len(result.drivers) = 3

\* C5 as claimed: every result has an expected deviation of at least 10.0 pips.
C5_FloorOnEveryPath ==
    pc = "returned" => result.expected_deviation_pips >= 100

\* C5 amended: every result of the analytic pipeline (a request outside the
\* weekend window) has an expected deviation of at least 10.0 pips; the Market
\* Closed result has 0.
C5_FloorOutsideWeekend ==
    pc = "returned" =>
        IF InWeekendWindow(now) THEN result.expected_deviation_pips = 0
        ELSE result.expected_deviation_pips >= 100

C5_Witness ==
    /\ pc = "returned"
    /\ ~InWeekendWindow(now)
    /\ historical_df # <<>>
    /\ RatLT(analysis.avg_session_range, RatInt(10))
    /\ result.expected_deviation_pips = 100

\* C6: the volatility_expectation of every result is one of the three tiers
\* (the middle tier under any of its names).
C6_ThreeTiers ==
    pc = "returned" =>
        result.volatility_expectation \in {"Low", "Normal", "Moderate", "Medium", "High"}

\* C7: when a candle fetch raises, the request ends with an error and no result;
\* the fetch is not repeated, the historical fetch does not follow an intraday
\* failure, and no later step runs.
C7_FetchFailureIsFatal ==
    /\ error = "Exception: Failed to fetch intraday data" =>
            pc = "raised" /\ result = None /\ log = <<"get_intraday_data">>
    /\ error = "Exception: Failed to fetch historical data" =>
            /\ pc = "raised"
            /\ result = None
            /\ log = <<"get_intraday_data", "get_historical_sessions">>
    /\ pc \in {"fetch_historical", "analysis", "calendar", "returned"} => error = "none"

C7_Witness ==
    /\ pc = "raised"
    /\ error = "Exception: Failed to fetch historical data"
    /\ intraday_df # <<>>

\* C9: a failure of the calendar lookup is never propagated to the caller.
C9_CalendarFailureSwallowed ==
    ~(pc = "raised" /\ log # <<>> /\ log[Len(log)] = "check_event_proximity")

(***************************************************************************)
(* ConfidenceScorer.calculate_confidence applied to chosen arguments.      *)
(***************************************************************************)
OccurrenceInputs == {0, 1, 16, 60, SampleTarget - 1, SampleTarget, MaxOccurrences}
RateInputs == {Rat(k, 100) : k \in {0, 25, 40, 50, 63, 75, 100}}
DataAgeInputs == {0, 5, 15, 30, 60, 90}
MaxDataAgeInputs == {0, 1, 30, 60}

InitScorer ==
    /\ AnalyserIdle
    /\ ClientIdle
    /\ priceScale = 1
    /\ MatcherIdle
    /\ EngineIdle
    /\ cs \in [occurrences : OccurrenceInputs, expansion_rate : RateInputs,
                has_event : BOOLEAN, data_age_days : DataAgeInputs,
                max_data_age : MaxDataAgeInputs, done : {FALSE}, out : {None}]

ScoreConfidence ==
    /\ ~cs.done
    /\ cs' = [cs EXCEPT
                !.done = TRUE,
                !.out = calculate_confidence(cs.occurrences, cs.expansion_rate,
                                             cs.has_event, cs.data_age_days,
                                             cs.max_data_age)]
    /\ UNCHANGED <<analyserVars, pm, cache, intel>>

NextScorer == ScoreConfidence

SpecScorer == InitScorer /\ [][NextScorer]_vars

\* C3: for occurrences >= 0, a rate in [0, 1], data_age_days >= 0 and
\* max_data_age > 0, calculate_confidence returns a value in [0, 0.85]: the sum of
\* the four weighted components, capped at 0.85 (and rounded to 2 decimals).
C3_ConfidenceBounded ==
    (cs.done /\ cs.max_data_age > 0) =>
        LET sample == IF cs.occurrences >= 120 THEN Rat(40, 100)
                      ELSE Rat(cs.occurrences * 40, 120 * 100)
            pattern == RatMul(RatAbs(RatSub(cs.expansion_rate, Rat(1, 2))), Rat(50, 100))
            event == IF cs.has_event THEN Rat(20, 100) ELSE RatInt(0)
            data == IF cs.data_age_days >= cs.max_data_age THEN RatInt(0)
                    ELSE Rat((cs.max_data_age - cs.data_age_days) * 15,
                             cs.max_data_age * 100)
            sum == RatAdd(RatAdd(sample, pattern), RatAdd(event, data))
        IN  /\ RatLE(RatInt(0), cs.out)
            /\ RatLE(cs.out, Rat(85, 100))
            /\ RatLT(Rat(85, 100), sum) => cs.out = Rat(85, 100)
            /\ RatLE(sum, Rat(85, 100)) => cs.out = Rat(Round(sum, 100), 100)

\* the cap at work: every component at its maximum
C3_Witness ==
    /\ cs.done
    /\ cs.occurrences = MaxOccurrences
    /\ cs.expansion_rate = RatInt(1)
    /\ cs.has_event
    /\ cs.data_age_days = 0
    /\ cs.max_data_age = 60
    /\ cs.out = Rat(85, 100)

(***************************************************************************)
(* PatternMatcher.find_similar_conditions applied to a history that grows  *)
(* one day at a time.                                                      *)
(***************************************************************************)
SimilarityThreshold == Rat(15, 100)
CurrentRangeInputs == {RatInt(8), RatInt(24), RatInt(40)}
AverageRangeInputs == {RatInt(0), RatInt(10), RatInt(120)}

\* the pair whose quotes have the scale of the run
MatcherPair == IF priceScale = 1 THEN EUR \o USD ELSE GBP \o JPY

InitMatcher ==
    /\ AnalyserIdle
    /\ ClientIdle
    /\ priceScale \in PriceScales
    /\ ScorerIdle
    /\ MatcherIdle
    /\ EngineIdle

\* the data source holds one more day, of any kind
AppendDay(kind) ==
    /\ ~pm.done
    /\ Len(pm.kinds) < MaxVariedDays
    /\ pm' = [pm EXCEPT !.kinds = Append(@, kind)]
    /\ UNCHANGED <<analyserVars, cs, cache, intel>>

\* the data source holds one more day, like the day before it
RepeatDay ==
    /\ ~pm.done
    /\ Len(pm.kinds) >= MaxVariedDays
    /\ Len(pm.kinds) < MaxDays
    /\ pm' = [pm EXCEPT !.kinds = Append(@, pm.kinds[Len(pm.kinds)])]
    /\ UNCHANGED <<analyserVars, cs, cache, intel>>

\* the call with a given average range
MatchPatterns(key, current_pre_range, avg_pre_range) ==
    /\ ~pm.done
    /\ pm' = [pm EXCEPT
                !.done = TRUE,
                !.args = [key |-> key, current_pre_range |-> current_pre_range,
                          avg_pre_range |-> avg_pre_range],
                !.out = find_similar_conditions(
                            MatcherPair, current_pre_range, avg_pre_range,
                            SeriesOf(pm.kinds, priceScale), SESSIONS[key].start,
                            SESSIONS[key].end, SimilarityThreshold)]
    /\ UNCHANGED <<analyserVars, cs, cache, intel>>

\* the call as the analyser makes it, with the average of the same history
MatchPatternsOnAverage(key, current_pre_range) ==
    MatchPatterns(key, current_pre_range,
                  calculate_30day_avg_range(MatcherPair, SeriesOf(pm.kinds, priceScale),
                                            SESSIONS[key].start, PreSessionMinutes, TRUE))

\* the call when the current pre-session range is that of the latest day held
MatchPatternsOnDayRange(key, avg_pre_range) ==
    /\ pm.kinds # <<>>
    /\ MatchPatterns(key,
                     calculate_pre_session_range(
                         MatcherPair,
                         DayCandles(pm.kinds[Len(pm.kinds)], Len(pm.kinds), priceScale),
                         SESSIONS[key].start, PreSessionMinutes),
                     avg_pre_range)

NextMatcher ==
    \/ \E kind \in DayKinds : AppendDay(kind)
    \/ RepeatDay
    \/ \E key \in {ASIAN, LONDON, NY}, c \in CurrentRangeInputs, a \in AverageRangeInputs :
            MatchPatterns(key, c, a)
    \/ \E key \in {ASIAN, LONDON, NY}, c \in CurrentRangeInputs :
            MatchPatternsOnAverage(key, c)
    \/ \E key \in {ASIAN, LONDON, NY}, a \in AverageRangeInputs :
            MatchPatternsOnDayRange(key, a)

SpecMatcher == InitMatcher /\ [][NextMatcher]_vars

\* the days of the history whose pre-session range is non-zero and whose ratio to
\* the average lies within the threshold of the current ratio
SimilarDays ==
    IF pm.args.avg_pre_range.n = 0 THEN {}
    ELSE {d \in DOMAIN pm.kinds :
            LET pre_range ==
                    calculate_pre_session_range(
                        MatcherPair, DayCandles(pm.kinds[d], d, priceScale),
                        SESSIONS[pm.args.key].start, PreSessionMinutes)
                distance ==
                    RatAbs(RatSub(RatDiv(pre_range, pm.args.avg_pre_range),
                                  RatDiv(pm.args.current_pre_range, pm.args.avg_pre_range)))
            IN  pre_range.n # 0 /\ RatLE(distance, SimilarityThreshold)}

\* C10: find_similar_conditions returns an expansion_rate in [0, 1]; when there are
\* no occurrences it returns exactly rate 0.5, avg_expansion_pips 0.0 and no
\* matched dates; otherwise matched_dates holds the min(occurrences, 10) most
\* recent matching days.
C10_PatternStatistics ==
    pm.done =>
        LET out == pm.out
            n == out.similar_conditions_occurrences
            dates == out.matched_dates
        IN  /\ RatLE(RatInt(0), out.expansion_rate)
            /\ RatLE(out.expansion_rate, RatInt(1))
            /\ n = Cardinality(SimilarDays)
            /\ n = 0 => /\ out.expansion_rate = Rat(1, 2)
                        /\ out.avg_expansion_pips = RatInt(0)
                        /\ dates = <<>>
            /\ n > 0 => /\ Len(dates) = (IF n < 10 THEN n ELSE 10)
                        /\ \A i \in DOMAIN dates : dates[i] \in SimilarDays
                        /\ \A i, j \in DOMAIN dates : i < j => dates[i] < dates[j]
                        /\ \A d \in SimilarDays :
                                d \in Range(dates) \/ d < dates[1]

\* more than ten matching days, the oldest of them left out
C10_Witness ==
    /\ pm.done
    /\ pm.out.similar_conditions_occurrences > 10
    /\ Len(pm.out.matched_dates) = 10
    /\ 1 \in SimilarDays
    /\ pm.out.matched_dates[1] > 1

(***************************************************************************)
(* config.py, session.py, volatility.py, data_fetcher.py: the engine's     *)
(* collaborators.  The hourly rows of the download are [ts, High, Low]     *)
(* with ts counted in hours and prices in units of 0.000001.               *)
(***************************************************************************)
HoursPerDay == 24
PriceUnit == 1000000

PIP_CONFIG == [default |-> 10000, jpy |-> 100, gbp_jpy |-> 100, crypto |-> 1]
VOLATILITY_THRESHOLDS == [low_compression |-> Rat(75, 100), high_expansion |-> Rat(125, 100)]
SESSION_CONFIG ==
    [asian_start |-> 0, asian_end |-> 6, london_start |-> 7, london_end |-> 12,
     newyork_start |-> 13, newyork_end |-> 17]

detect_session(hour) ==
    IF SESSION_CONFIG.asian_start <= hour /\ hour <= SESSION_CONFIG.asian_end THEN "Asian"
    ELSE IF SESSION_CONFIG.london_start <= hour /\ hour <= SESSION_CONFIG.london_end
    THEN "London"
    ELSE IF SESSION_CONFIG.newyork_start <= hour /\ hour <= SESSION_CONFIG.newyork_end
    THEN "New York"
    ELSE "Off-session"

classify_volatility_expectation(compression_ratio) ==
    IF RatLT(compression_ratio, VOLATILITY_THRESHOLDS.low_compression) THEN "Low"
    ELSE IF RatLT(VOLATILITY_THRESHOLDS.high_expansion, compression_ratio) THEN "High"
    ELSE "Normal"

get_confidence_for_expectation(expectation, compression_ratio, sample_size) ==
    LET extremeness == RatAbs(RatSub(compression_ratio, RatInt(1)))
        extremeness_score == RatMin(RatDiv(extremeness, Rat(1, 2)), RatInt(1))
        sample_confidence == RatMin(Rat(sample_size, 200), Rat(3, 10))
        base_confidence ==
            IF expectation = "Low" THEN Rat(65, 100)
            ELSE IF expectation = "Normal" THEN Rat(70, 100)
            ELSE Rat(75, 100)
        confidence ==
            RatAdd(RatAdd(base_confidence, RatMul(extremeness_score, Rat(15, 100))),
                   sample_confidence)
    IN  RatMin(confidence, Rat(99, 100))

get_session_volatility_multiplier(session_name) ==
    IF session_name = "Asian"
    THEN <<Rat(85, 100), "Asian session typically has lower volatility">>
    ELSE IF session_name = "London"
    THEN <<Rat(120, 100),
           "London session historically increases participation and volatility">>
    ELSE IF session_name = "New York"
    THEN <<Rat(125, 100),
           "New York session brings high liquidity and macro event sensitivity">>
    ELSE IF session_name = "Off-session"
    THEN <<Rat(70, 100), "Off-session hours have thinner liquidity">>
    ELSE <<RatInt(1), "Normal session conditions">>

event_impacts(event) ==
    IF event = "ECB Rate Decision" THEN Rat(135, 100)
    ELSE IF event = "Fed Decision" THEN Rat(140, 100)
    ELSE IF event = "US NFP" THEN Rat(150, 100)
    ELSE IF event = "US CPI" THEN Rat(135, 100)
    ELSE IF event = "Eurozone GDP" THEN Rat(125, 100)
    ELSE IF event = "UK Inflation" THEN Rat(130, 100)
    ELSE IF event = "BoE Rate Decision" THEN Rat(135, 100)
    ELSE IF event = "RBA Decision" THEN Rat(130, 100)
    ELSE Rat(120, 100)

\* <<max_impact, drivers>>; events is a list of names, and the absent list (None),
\* which `not events` does not tell from the empty one, is the empty list
RECURSIVE get_macro_event_impact(_)
get_macro_event_impact(events) ==
    IF events = <<>> THEN <<RatInt(1), <<>>>>
    ELSE LET front == get_macro_event_impact(SubSeq(events, 1, Len(events) - 1))
             event == events[Len(events)]
             impact == event_impacts(event)
         IN  IF RatLT(front[1], impact)
             THEN <<impact, Append(front[2], [kind |-> "macro", a |-> event, b |-> 0])>>
             ELSE front

\* int(): truncation of a non-negative value
IntOf(x) == x.n \div x.d

volatility_for_session(session_name, compression_ratio, macro_events, historical_occurrences) ==
    LET expectation == classify_volatility_expectation(compression_ratio)
        session == get_session_volatility_multiplier(session_name)
        macro == get_macro_event_impact(macro_events)
        base_deviation ==
            IF expectation = "Low" THEN 20 ELSE IF expectation = "Normal" THEN 35 ELSE 50
        final_deviation == IntOf(RatMul(RatMul(RatInt(base_deviation), session[1]), macro[1]))
        confidence ==
            get_confidence_for_expectation(expectation, compression_ratio,
                                           historical_occurrences)
        shown == Round(compression_ratio, 100)
        range_driver ==
            IF RatLT(compression_ratio, Rat(75, 100))
            THEN [kind |-> "range compression", a |-> shown, b |-> 0]
            ELSE IF RatLT(Rat(125, 100), compression_ratio)
            THEN [kind |-> "range expansion", a |-> shown, b |-> 0]
            ELSE [kind |-> "range normal", a |-> shown, b |-> 0]
    IN  [volatility_expectation |-> expectation,
         confidence |-> Rat(Round(confidence, 100), 100),
         expected_deviation_pips |-> final_deviation,
         drivers |-> <<range_driver, [kind |-> "session", a |-> session[2], b |-> 0]>>
                     \o macro[2],
         historical_context |->
            [similar_conditions_occurrences |-> historical_occurrences,
             expansion_rate |->
                RatMin(RatAdd(RatMul(compression_ratio, Rat(1, 2)), Rat(1, 4)), RatInt(1))]]

\* str.strip() and str.isalpha()
RECURSIVE Strip(_)
Strip(s) ==
    IF s = <<>> THEN s
    ELSE IF Head(s) = " " THEN Strip(Tail(s))
    ELSE IF s[Len(s)] = " " THEN Strip(SubSeq(s, 1, Len(s) - 1))
    ELSE s

isalpha(s) == s # <<>> /\ \A i \in DOMAIN s : s[i] \in DOMAIN UPPER \cup DOMAIN LOWER

\* the rows of one day: count hourly rows with the same low and high
Rows(day, count, low, high, scale) ==
    [i \in 1..count |->
        [ts |-> day * HoursPerDay + i - 1,
         High |-> (PriceUnit + high) * scale,
         Low |-> (PriceUnit + low) * scale]]

DownloadKinds == {"steady", "squeezed", "breakout", "flatline", "empty"}

\* what yf.download may hand back
Download(kind, scale) ==
    IF kind = "steady"
    THEN Rows(1, 3, 0, 10000, scale) \o Rows(2, 3, 0, 10000, scale)
    ELSE IF kind = "squeezed"
    THEN Rows(1, 2, -30000, 30000, scale) \o Rows(2, 24, 0, 5000, scale)
    ELSE IF kind = "breakout"
    THEN Rows(1, 20, 0, 5000, scale) \o Rows(2, 6, -5000, 15000, scale)
    ELSE IF kind = "flatline"
    THEN Rows(1, 2, 0, 0, scale)
    ELSE <<>>

get_pip_multiplier(p) ==
    IF Len(p) >= 3 /\ SubSeq(p, Len(p) - 2, Len(p)) = JPY THEN PIP_CONFIG.jpy
    ELSE IF p \in {<<"B", "T", "C", "U", "S", "D">>, <<"E", "T", "H", "U", "S", "D">>}
    THEN PIP_CONFIG.crypto
    ELSE PIP_CONFIG.default

\* the range in price units (both elements of the tuple are this value)
calculate_24h_range(data) ==
    LET last_24h == LastK(data, 24)
    IN  IF last_24h = <<>> THEN 0
        ELSE MaxOf({last_24h[i].High : i \in DOMAIN last_24h})
             - MinOf({last_24h[i].Low : i \in DOMAIN last_24h})

\* one daily range for every row of data, that of the row's day
calculate_avg_range(data) ==
    LET day_data(date) == SelectSeq(data, LAMBDA r : r.ts \div HoursPerDay = date)
        daily_range(date) ==
            MaxOf({day_data(date)[i].High : i \in DOMAIN day_data(date)})
            - MinOf({day_data(date)[i].Low : i \in DOMAIN day_data(date)})
        daily_ranges == [i \in DOMAIN data |-> daily_range(data[i].ts \div HoursPerDay)]
    IN  IF daily_ranges = <<>> THEN RatInt(0)
        ELSE Rat(SumSeq(daily_ranges), Len(daily_ranges))

calculate_compression_ratio(last_24h_range, avg_range) ==
    IF RatLE(avg_range, RatInt(0)) THEN RatInt(1) ELSE RatDiv(last_24h_range, avg_range)

get_agent_guidance(expectation) ==
    IF expectation = "Low"
    THEN "Range compression suggests calmer conditions; consider mean reversion strategies with tight stops and reduced position sizing."
    ELSE IF expectation = "Normal"
    THEN "Normal range conditions; apply standard risk management and position sizing relative to average volatility."
    ELSE IF expectation = "High"
    THEN "Range expansion indicates elevated volatility; favor breakout strategies with wider stops and careful position management."
    ELSE "Monitor conditions; use adaptive risk management."

NoLiveData == [kind |-> "No real-time data available; using session baseline", a |-> 0, b |-> 0]
HistoricalOccurrences == 150
IntelWindowMinutes == 90
FallbackConfidence == Rat(1, 2)

\* _build_fallback_intel that reports the confidence of the baseline unreduced
build_fallback_intel_full_confidence(p, session_name, macro_events) ==
    LET vol_data ==
            volatility_for_session(session_name, RatInt(1), macro_events,
                                   HistoricalOccurrences)
    IN  [pair |-> p,
         session |-> session_name,
         time_window_minutes |-> IntelWindowMinutes,
         volatility_expectation |-> vol_data.volatility_expectation,
         expected_deviation_pips |-> vol_data.expected_deviation_pips,
         confidence |-> vol_data.confidence,
         drivers |-> Append(vol_data.drivers, NoLiveData),
         historical_context |-> vol_data.historical_context,
         agent_guidance |-> get_agent_guidance(vol_data.volatility_expectation)]

build_fallback_intel(p, session_name, macro_events) ==
    LET vol_data ==
            volatility_for_session(session_name, RatInt(1), macro_events,
                                   HistoricalOccurrences)
    IN  [pair |-> p,
         session |-> session_name,
         time_window_minutes |-> IntelWindowMinutes,
         volatility_expectation |-> vol_data.volatility_expectation,
         expected_deviation_pips |-> vol_data.expected_deviation_pips,
         confidence |-> RatMin(vol_data.confidence, FallbackConfidence),
         drivers |-> Append(vol_data.drivers, NoLiveData),
         historical_context |-> vol_data.historical_context,
         agent_guidance |-> get_agent_guidance(vol_data.volatility_expectation)]

\* lines 54-103 of build_intel: the result computed from the candles
intel_from_data(p, session_name, macro_events, debug, data) ==
    LET pip_multiplier == get_pip_multiplier(p)
        last_24h_price_range == calculate_24h_range(data)
        last_24h_range_pips == Rat(last_24h_price_range * pip_multiplier, PriceUnit)
        avg_range_price == calculate_avg_range(data)
        avg_range_pips == RatDiv(RatMul(avg_range_price, RatInt(pip_multiplier)),
                                 RatInt(PriceUnit))
        compression_ratio ==
            calculate_compression_ratio(RatInt(last_24h_price_range), avg_range_price)
        vol_data ==
            volatility_for_session(session_name, compression_ratio, macro_events,
                                   HistoricalOccurrences)
        intel_dict ==
            [pair |-> p,
             session |-> session_name,
             time_window_minutes |-> IntelWindowMinutes,
             volatility_expectation |-> vol_data.volatility_expectation,
             expected_deviation_pips |-> vol_data.expected_deviation_pips,
             confidence |-> vol_data.confidence,
             drivers |-> vol_data.drivers,
             historical_context |-> vol_data.historical_context,
             agent_guidance |-> get_agent_guidance(vol_data.volatility_expectation)]
    IN  IF debug
        THEN [last_24h_range_pips |-> Rat(Round(last_24h_range_pips, 10), 10),
              avg_7day_range_pips |-> Rat(Round(avg_range_pips, 10), 10),
              compression_ratio |-> Rat(Round(compression_ratio, 100), 100)] @@ intel_dict
        ELSE intel_dict

(***************************************************************************)
(* engine.py: build_intel on the module's DataFetcher, whose cache maps    *)
(* pairs to the rows downloaded for them.                                  *)
(***************************************************************************)
IntelPairInputs ==
    {<<"e", "u", "r", "u", "s", "d">>, <<" ", "U", "S", "D", "J", "P", "Y">>,
     <<"E", "U", "R">>, <<"E", "U", "R", "U", "S", "1">>,
     <<"E", "U", "R", "/", "U", "S", "D">>}
MacroEventInputs ==
    {<<>>, <<"US CPI">>, <<"Eurozone GDP", "US NFP", "US CPI">>, <<"Bank holiday">>}
HourInputs == {0, 6, 7, 12, 13, 17, 18}

\* the price scale of the quotes of a pair
ScaleOf(p) == IF get_pip_multiplier(p) = PIP_CONFIG.jpy THEN 100 ELSE 1

InitEngine ==
    /\ AnalyserIdle
    /\ ClientIdle
    /\ priceScale = 1
    /\ ScorerIdle
    /\ MatcherIdle
    /\ EngineIdle

\* build_intel up to the download: lines 35-48 and fetch_data lines 54-59
BuildIntel(p, macro_events, debug, hour) ==
    LET code == Strip(Upper(p))
        session_name == detect_session(hour)
    IN  /\ intel.pc = "idle"
        /\ intel' =
            IF Len(code) # 6 \/ ~isalpha(code)
            THEN [pc |-> "raised", pair |-> code, error |-> "ValueError", source |-> "none"]
            ELSE IF code \in DOMAIN cache
            THEN [pc |-> "returned", pair |-> code, session |-> session_name,
                  macro_events |-> macro_events, debug |-> debug, source |-> "cache",
                  result |-> intel_from_data(code, session_name, macro_events, debug,
                                             cache[code])]
            ELSE [pc |-> "downloading", pair |-> code, session |-> session_name,
                  macro_events |-> macro_events, debug |-> debug, source |-> "none"]
        /\ UNCHANGED <<analyserVars, cs, pm, cache>>

\* yf.download returns: fetch_data lines 72-79, then build_intel lines 50-103
DownloadReturns(kind) ==
    LET data == Download(kind, ScaleOf(intel.pair))
    IN  /\ intel.pc = "downloading"
        /\ IF data = <<>>
           THEN /\ cache' = cache
                /\ intel' =
                    [intel EXCEPT !.pc = "returned", !.source = "empty"] @@
                    [result |-> build_fallback_intel(intel.pair, intel.session,
                                                     intel.macro_events)]
           ELSE /\ cache' = (intel.pair :> data) @@ cache
                /\ intel' =
                    [intel EXCEPT !.pc = "returned", !.source = "download"] @@
                    [result |-> intel_from_data(intel.pair, intel.session,
                                                intel.macro_events, intel.debug, data)]
        /\ UNCHANGED <<analyserVars, cs, pm>>

\* yf.download raises: fetch_data lines 81-83, then build_intel lines 50-52
DownloadFails ==
    /\ intel.pc = "downloading"
    /\ intel' =
        [intel EXCEPT !.pc = "returned", !.source = "failed"] @@
        [result |-> build_fallback_intel(intel.pair, intel.session, intel.macro_events)]
    /\ UNCHANGED <<analyserVars, cs, pm, cache>>

\* DataFetcher.clear_cache(pair)
ClearCachePair(p) ==
    /\ intel.pc = "idle"
    /\ cache # <<>>
    /\ cache' = [q \in DOMAIN cache \ {p} |-> cache[q]]
    /\ UNCHANGED <<analyserVars, cs, pm, intel>>

\* DataFetcher.clear_cache()
ClearCacheAll ==
    /\ intel.pc = "idle"
    /\ cache # <<>>
    /\ cache' = <<>>
    /\ UNCHANGED <<analyserVars, cs, pm, intel>>

\* the caller takes the result or the error
IntelDone ==
    /\ intel.pc \in {"returned", "raised"}
    /\ intel' = [pc |-> "idle"]
    /\ UNCHANGED <<analyserVars, cs, pm, cache>>

NextEngine ==
    \/ \E p \in IntelPairInputs, m \in MacroEventInputs, debug \in BOOLEAN, h \in HourInputs :
            BuildIntel(p, m, debug, h)
    \/ \E kind \in DownloadKinds : DownloadReturns(kind)
    \/ DownloadFails
    \/ \E p \in {EUR \o USD, USD \o JPY} : ClearCachePair(p)
    \/ ClearCacheAll
    \/ IntelDone

SpecEngine == InitEngine /\ [][NextEngine]_vars

\* C8: when the candle source returns no data or fails for a valid 6-letter pair,
\* build_intel does not raise; it returns the result of the baseline computation
\* with the neutral compression ratio 1.0: volatility_expectation 'Normal',
\* confidence at most 0.5, and the baseline's drivers followed by one extra last
\* driver saying that no real-time data is available.
C8_FallbackOnMissingData ==
    (intel.pc \in {"returned", "raised"} /\ intel.source \in {"empty", "failed"}) =>
        LET baseline ==
                volatility_for_session(intel.session, RatInt(1), intel.macro_events, 150)
            r == intel.result
        IN  /\ intel.pc = "returned"
            /\ r.pair = intel.pair
            /\ r.volatility_expectation = "Normal"
            /\ r.drivers[1] = [kind |-> "range normal", a |-> 100, b |-> 0]
            /\ r.historical_context.expansion_rate = Rat(3, 4)
            /\ RatLE(r.confidence, Rat(1, 2))
            /\ Len(r.drivers) = Len(baseline.drivers) + 1
            /\ SubSeq(r.drivers, 1, Len(baseline.drivers)) = baseline.drivers
            /\ r.drivers[Len(r.drivers)].kind
                    = "No real-time data available; using session baseline"
            /\ \A i \in 1..Len(baseline.drivers) :
                    r.drivers[i].kind
                        # "No real-time data available; using session baseline"

\* a failed download answered with the fallback, a macro event among its drivers
C8_Witness ==
    /\ intel.pc = "returned"
    /\ intel.source = "failed"
    /\ intel.pair = USD \o JPY
    /\ Len(intel.result.drivers) = 4
    /\ intel.result.confidence = Rat(1, 2)

(***************************************************************************)
(* analyze_forex_session called twice with the same arguments at the same  *)
(* clock reading.                                                          *)
(***************************************************************************)
RepeatPairs == {<<"E", "U", "R", "/", "U", "S", "D">>, <<"g", "b", "p", "_", "j", "p", "y">>,
                <<"X", "A", "U", "/", "U", "S", "D">>}
RepeatSelectors == {LONDON, AUTO, <<"t", "o", "k", "y", "o">>}
RepeatClocks == {[wd |-> 2, t |-> HHMM(8, 30)], [wd |-> 2, t |-> HHMM(22, 0)],
                 [wd |-> 5, t |-> HHMM(12, 0)]}
RepeatHistories == {<<>>, <<"coiled">>, <<"wide", "coiled">>}

InitRepeat ==
    /\ AnalyserIdle
    /\ client \in {NewClient(m) : m \in RequestsPerCall..MaxRequestsPerDay}
    /\ prev = None
    /\ RequestsIdle
    /\ CallsIdle
    /\ priceScale = 1
    /\ ScorerIdle
    /\ MatcherIdle
    /\ EngineIdle

\* the first call and what came of it
Snapshot ==
    [pc |-> pc, pair |-> pair, target_session |-> target_session, now |-> now,
     intraday_df |-> intraday_df, historical_df |-> historical_df,
     calendar_answer |-> calendar_answer, log |-> log, result |-> result,
     error |-> error]

\* the caller has the outcome and makes the same call again
CallAgain ==
    /\ pc \in {"returned", "raised"}
    /\ prev = None
    /\ prev' = Snapshot
    /\ Accept(pair, target_session, now)

NextRepeat ==
    \/ \E p \in RepeatPairs, selector \in RepeatSelectors, clock \in RepeatClocks :
          Request(p, selector, clock)
    \/ \E kind \in IntradayKinds : FetchIntraday(kind)
    \/ FetchIntradayFails
    \/ FetchIntradayLimited
    \/ \E kinds \in RepeatHistories : FetchHistorical(kinds)
    \/ FetchHistoricalFails
    \/ FetchHistoricalLimited
    \/ Analyse
    \/ \E event \in CalendarAnswers : CalendarReturns(event)
    \/ CalendarFails
    \/ CallAgain

SpecRepeat == InitRepeat /\ [][NextRepeat]_vars

SourceFailures ==
    {"Exception: Failed to fetch intraday data", "Exception: Failed to fetch historical data",
     "Exception: calendar lookup"}
LimitErrors ==
    {"Exception: Failed to fetch intraday data: Daily API limit reached",
     "Exception: Failed to fetch historical data: Daily API limit reached"}

\* both calls are over, the first without a failure of a source, and the sources
\* gave the second call what they gave the first, as far as it asked
RepeatedOnSameSource ==
    /\ prev # None
    /\ pc \in {"returned", "raised"}
    /\ prev.error \notin SourceFailures
    /\ error \notin SourceFailures
    /\ intraday_df \in {<<>>, prev.intraday_df}
    /\ Len(log) >= 3 => historical_df = prev.historical_df
    /\ calendar_answer \in {None, prev.calendar_answer}

InitConcurrent ==
    /\ AnalyserIdle
    /\ client \in {NewClient(m) : m \in 1..MaxRequestsPerDay}
    /\ prev = None
    /\ RequestsIdle
    /\ CallsIdle
    /\ priceScale = 1
    /\ ScorerIdle
    /\ MatcherIdle
    /\ EngineIdle

Touch(r, reads, writes) ==
    touched' = touched \cup {[r |-> r, field |-> f, op |-> "read"] : f \in reads}
                       \cup {[r |-> r, field |-> f, op |-> "write"] : f \in writes}

\* analyze_forex_session is entered; the first fetch is the intraday one
StartRequest(r) ==
    /\ req[r].pc = "idle"
    /\ req' = [req EXCEPT ![r] = [pc |-> "check", step |-> "intraday", count |-> 0]]
    /\ UNCHANGED <<analyserVars_but_requests, cs, pm, cache, intel, call, touched>>

\* _check_rate_limit, lines 47-59: the reset and the daily limit
CheckRateLimit(r) ==
    /\ req[r].pc = "check"
    /\ client' = check_rate_limit(client)
    /\ req' = [req EXCEPT ![r].pc = IF limit_reached(client) THEN "raised" ELSE "get"]
    /\ Touch(r, {"daily_reset_time", "daily_request_count"} \cup
                (IF limit_reached(client) THEN {} ELSE {"last_request_time"}),
                IF client.reset_due THEN {"daily_reset_time", "daily_request_count"} ELSE {})
    /\ UNCHANGED <<analyserState, prev, cs, pm, cache, intel, call>>

\* requests.get has returned: line 88
StampRequest(r) ==
    /\ req[r].pc = "get"
    /\ client' = [client EXCEPT !.last_request_time = 1]
    /\ req' = [req EXCEPT ![r].pc = "load"]
    /\ Touch(r, {}, {"last_request_time"})
    /\ UNCHANGED <<analyserState, prev, cs, pm, cache, intel, call>>

\* requests.get has raised: the request fails with the fields as they are
RequestFails(r) ==
    /\ req[r].pc = "get"
    /\ req' = [req EXCEPT ![r].pc = "raised"]
    /\ UNCHANGED <<analyserVars_but_requests, cs, pm, cache, intel, call, touched>>

\* line 89, the load of self.daily_request_count
LoadCount(r) ==
    /\ req[r].pc = "load"
    /\ req' = [req EXCEPT ![r].pc = "store", ![r].count = client.daily_request_count]
    /\ Touch(r, {"daily_request_count"}, {})
    /\ UNCHANGED <<analyserVars_but_requests, cs, pm, cache, intel, call>>

\* line 89, the store of the sum; then the historical fetch, or the analysis
StoreCount(r) ==
    /\ req[r].pc = "store"
    /\ client' = [client EXCEPT !.daily_request_count = req[r].count + 1]
    /\ req' = [req EXCEPT ![r].pc = IF req[r].step = "intraday" THEN "check" ELSE "returned",
                          ![r].step = "historical"]
    /\ Touch(r, {}, {"daily_request_count"})
    /\ UNCHANGED <<analyserState, prev, cs, pm, cache, intel, call>>

NextConcurrent ==
    \/ \E r \in Requests :
          \/ StartRequest(r)
          \/ CheckRateLimit(r)
          \/ StampRequest(r)
          \/ RequestFails(r)
          \/ LoadCount(r)
          \/ StoreCount(r)
    \/ DayPasses

SpecConcurrent == InitConcurrent /\ [][NextConcurrent]_vars

\* C12 as claimed: no field of anything two concurrent requests can both reach is
\* written by one of them and read or written by the other.
C12_NoSharedMutableState ==
    \A a \in touched : \A b \in touched :
        (a.r # b.r /\ a.field = b.field) => (a.op = "read" /\ b.op = "read")

\* the pre-session and session ranges of the days of a history that are all alike
IdenticalDays == pm.kinds # <<>> /\ \A i \in DOMAIN pm.kinds : pm.kinds[i] = pm.kinds[1]
DayPreRange ==
    calculate_pre_session_range(MatcherPair, DayCandles(pm.kinds[1], 1, priceScale),
                                SESSIONS[pm.args.key].start, PreSessionMinutes)
DaySessionRange ==
    calculate_session_range(MatcherPair, DayCandles(pm.kinds[1], 1, priceScale),
                            SESSIONS[pm.args.key].start, SESSIONS[pm.args.key].end)

\* C13: on a history of N days that all have the same non-zero pre-session range P
\* and the same session range S, with a current pre-session range whose ratio to
\* the average is P / avg_pre_range, find_similar_conditions returns N occurrences
\* and an expansion_rate of 1.0 if S > 1.5 * P, of 0.0 otherwise.
C13_IdenticalDaysAllMatch ==
    (/\ pm.done
     /\ IdenticalDays
     /\ pm.args.avg_pre_range.n # 0
     /\ DayPreRange.n # 0
     /\ pm.args.current_pre_range = DayPreRange)
    => /\ pm.out.similar_conditions_occurrences = Len(pm.kinds)
       /\ pm.out.expansion_rate =
              (IF RatLT(RatMul(DayPreRange, Rat(15, 10)), DaySessionRange)
               THEN RatInt(1) ELSE RatInt(0))

\* more days alike than the history varies, matched and all expanded
C13_Witness ==
    /\ pm.done
    /\ IdenticalDays
    /\ Len(pm.kinds) > MaxVariedDays
    /\ pm.args.avg_pre_range.n # 0
    /\ DayPreRange.n # 0
    /\ pm.args.current_pre_range = DayPreRange
    /\ pm.out.similar_conditions_occurrences = Len(pm.kinds)
    /\ pm.out.expansion_rate = RatInt(1)

(***************************************************************************)
(* Single calls of the operations of RangeCalculator and ConfidenceScorer, *)
(* with arguments on and around their thresholds.                          *)
(***************************************************************************)
RangeInputs == {RatInt(0), RatInt(5), RatInt(7), RatInt(8), Rat(123, 10), RatInt(20)}
AvgRangeInputs == {RatInt(0), RatInt(10), Rat(175, 10)}
ThresholdInputs == {DefaultCompressionThreshold, Rat(5, 10), RatInt(1)}
CurrentAtrInputs == {RatInt(k) : k \in {0, 4, 5, 6, 8, 10, 12, 13, 15, 16}}
AvgAtrInputs == {RatInt(0), RatInt(10)}

InitCalls ==
    /\ AnalyserIdle
    /\ ClientIdle
    /\ priceScale = 1
    /\ ScorerIdle
    /\ MatcherIdle
    /\ EngineIdle

DetectCompression(current_range, avg_range, threshold) ==
    /\ call = NoCall
    /\ call' = [op |-> "detect_compression",
                args |-> [current_range |-> current_range, avg_range |-> avg_range,
                          threshold |-> threshold],
                out |-> detect_compression(current_range, avg_range, threshold)]
    /\ UNCHANGED <<analyserVars_but_requests, cs, pm, cache, intel, req, touched>>

CalculateConfidence(occurrences, expansion_rate, has_event, data_age_days, max_data_age) ==
    /\ call = NoCall
    /\ call' = [op |-> "calculate_confidence",
                args |-> [occurrences |-> occurrences, expansion_rate |-> expansion_rate,
                          has_event |-> has_event, data_age_days |-> data_age_days,
                          max_data_age |-> max_data_age],
                out |-> calculate_confidence(occurrences, expansion_rate, has_event,
                                             data_age_days, max_data_age)]
    /\ UNCHANGED <<analyserVars_but_requests, cs, pm, cache, intel, req, touched>>

GetConfidenceBreakdown(occurrences, expansion_rate, has_event, data_age_days, max_data_age) ==
    /\ call = NoCall
    /\ call' = [op |-> "get_confidence_breakdown",
                args |-> [occurrences |-> occurrences, expansion_rate |-> expansion_rate,
                          has_event |-> has_event, data_age_days |-> data_age_days,
                          max_data_age |-> max_data_age],
                out |-> get_confidence_breakdown(occurrences, expansion_rate, has_event,
                                                 data_age_days, max_data_age)]
    /\ UNCHANGED <<analyserVars_but_requests, cs, pm, cache, intel, req, touched>>

\* the adjustment of a confidence that calculate_confidence has produced
AdjustForVolatilityRegime(base_confidence, current_atr, avg_atr) ==
    /\ call = NoCall
    /\ call' = [op |-> "adjust_for_volatility_regime",
                args |-> [base_confidence |-> base_confidence, current_atr |-> current_atr,
                          avg_atr |-> avg_atr],
                out |-> adjust_for_volatility_regime(base_confidence, current_atr, avg_atr,
                                                     DefaultAdjustmentFactor)]
    /\ UNCHANGED <<analyserVars_but_requests, cs, pm, cache, intel, req, touched>>

\* the clock readings tried: every weekday, on the hour and a minute before it
ClockInputs == {[wd |-> w, t |-> HHMM(h, m)] : w \in 0..6, h \in 0..23, m \in {0, 59}}

\* lines 70-89 of analyze_forex_session: the weekend check and the choice of the
\* session, for a pair that is valid
ResolveTargetSession(selector, clock) ==
    /\ call = NoCall
    /\ call' = [op |-> "resolve_session",
                args |-> [target_session |-> selector, now |-> clock],
                out |-> IF is_weekend(clock) THEN [closed |-> TRUE]
                        ELSE [closed |-> FALSE,
                              current_session |-> get_current_session(clock),
                              next_start |-> get_next_session_start(clock),
                              session_key |-> resolve_session(selector, clock)]]
    /\ UNCHANGED <<analyserVars_but_requests, cs, pm, cache, intel, req, touched>>

\* the columns of a frame as get_time_series builds it (the index is the datetime)
FrameColumns == {"open", "high", "low", "close", "volume"}
SeriesOperations ==
    {"calculate_pre_session_range", "calculate_session_range",
     "calculate_30day_avg_range", "find_similar_conditions"}

\* the caller's frame once the operation has returned.  The filters and
\* find_similar_conditions work on df.copy(); calculate_30day_avg_range assigns
\* historical_df['date'] on the frame it was given.
df_after(op, df) ==
    IF op = "calculate_30day_avg_range" THEN [df EXCEPT !.columns = @ \cup {"date"}]
    ELSE df

\* one operation on a series of the London session of EUR/USD
AnalyseSeries(op, kinds) ==
    LET p == EUR \o USD
        df == [columns |-> FrameColumns, rows |-> SeriesOf(kinds, 1)]
        start == SESSIONS[LONDON].start
        end == SESSIONS[LONDON].end
        avg == calculate_30day_avg_range(p, df.rows, start, PreSessionMinutes, TRUE)
    IN  /\ call = NoCall
        /\ call' = [op |-> op,
                    args |-> [df |-> df],
                    out |-> IF op = "calculate_pre_session_range"
                            THEN calculate_pre_session_range(p, df.rows, start,
                                                             PreSessionMinutes)
                            ELSE IF op = "calculate_session_range"
                            THEN calculate_session_range(p, df.rows, start, end)
                            ELSE IF op = "calculate_30day_avg_range" THEN avg
                            ELSE find_similar_conditions(p, avg, avg, df.rows, start, end,
                                                         SimilarityThreshold),
                    df |-> df_after(op, df)]
        /\ UNCHANGED <<analyserVars_but_requests, cs, pm, cache, intel, req, touched>>

ExpectationInputs == {"Low", "Normal", "High"}
RatioInputs == {RatInt(0), Rat(1, 2), Rat(3, 4), Rat(9, 10), RatInt(1), Rat(5, 4), Rat(3, 2), RatInt(2)}
SampleSizeInputs == {0, 20, 40, 150, 200}

GetConfidenceForExpectation(expectation, compression_ratio, sample_size) ==
    /\ call = NoCall
    /\ call' = [op |-> "get_confidence_for_expectation",
                args |-> [expectation |-> expectation, compression_ratio |-> compression_ratio,
                          sample_size |-> sample_size],
                out |-> get_confidence_for_expectation(expectation, compression_ratio,
                                                       sample_size)]
    /\ UNCHANGED <<analyserVars_but_requests, cs, pm, cache, intel, req, touched>>

ExpansionRateInputs == {RatInt(0), Rat(1, 2), RatInt(1)}
SessionRangeInputs == {RatInt(0), RatInt(3), RatInt(10), RatInt(55)}

CalculateExpectedDeviation(current_pre_range, avg_pre_range, historical_expansion_rate, avg_session_range) ==
    /\ call = NoCall
    /\ call' = [op |-> "calculate_expected_deviation",
                args |-> [current_pre_range |-> current_pre_range,
                          avg_pre_range |-> avg_pre_range,
                          historical_expansion_rate |-> historical_expansion_rate,
                          avg_session_range |-> avg_session_range],
                out |-> calculate_expected_deviation(current_pre_range, avg_pre_range,
                                                     historical_expansion_rate,
                                                     avg_session_range)]
    /\ UNCHANGED <<analyserVars_but_requests, cs, pm, cache, intel, req, touched>>

\* expected deviations on, between and beside the adjusted thresholds, in tenths
ExpectedPipsInputs ==
    {Rat(k, 10) : k \in {0, 104, 105, 150, 165, 175, 180, 244, 245, 250, 275, 300, 350,
                         385, 420, 600, 660, 720, 1000}}
ClassifyPairInputs ==
    {<<"E", "U", "R", "/", "U", "S", "D">>, <<"e", "u", "r", "u", "s", "d">>,
     <<"G", "B", "P", "_", "J", "P", "Y">>, <<"u", "s", "d", "/", "j", "p", "y">>}
SessionLabelInputs ==
    {ASIAN, LONDON, NY, <<"L", "o", "n", "d", "o", "n">>, <<"t", "o", "k", "y", "o">>}

ClassifyVolatility(expected_pips, p, session) ==
    /\ call = NoCall
    /\ call' = [op |-> "classify_volatility",
                args |-> [expected_pips |-> expected_pips, pair |-> p, session |-> session],
                out |-> [level |-> classify_volatility(expected_pips, p, session)]]
    /\ UNCHANGED <<analyserVars_but_requests, cs, pm, cache, intel, req, touched>>

TierInputs == {"Low", "Medium", "High"}
GuidanceRateInputs == {Rat(k, 100) : k \in {0, 39, 40, 45, 50, 55, 60, 61, 100}}

GenerateAgentGuidance(volatility_level, expansion_rate, is_compressed, has_event) ==
    /\ call = NoCall
    /\ call' = [op |-> "generate_agent_guidance",
                args |-> [volatility_level |-> volatility_level, expansion_rate |-> expansion_rate,
                          is_compressed |-> is_compressed, has_event |-> has_event],
                out |-> [guidance |-> generate_agent_guidance(volatility_level, expansion_rate,
                                                              is_compressed, has_event)]]
    /\ UNCHANGED <<analyserVars_but_requests, cs, pm, cache, intel, req, touched>>

\* _session_mask of mcp/ingest.py: one flag per timestamp
session_mask(timestamps, start, end) ==
    LET times == [i \in DOMAIN timestamps |-> timestamps[i] % (24 * 60)]
    IN  IF start <= end
        THEN [i \in DOMAIN times |-> times[i] >= start /\ times[i] < end]
        ELSE [i \in DOMAIN times |-> times[i] >= start \/ times[i] < end]

CandleTimeInputs == {HHMM(0, 0), HHMM(2, 0), HHMM(6, 59), HHMM(7, 0), HHMM(8, 0), HHMM(15, 59), HHMM(16, 0), HHMM(22, 0), HHMM(23, 59)}
WindowEdgeInputs == {HHMM(0, 0), HHMM(6, 0), HHMM(7, 0), HHMM(16, 0), HHMM(22, 0)}

\* both session filters applied to the same one-candle frame
FilterSession(t, session_start, session_end) ==
    /\ call = NoCall
    /\ LET df == <<Candle(1, t, 100, 110, 1)>>
       IN  call' = [op |-> "filter_session",
                    args |-> [t |-> t, session_start |-> session_start, session_end |-> session_end],
                    out |-> [kept |-> filter_session(df, session_start, session_end),
                             mask |-> session_mask(<<df[1].ts>>, session_start, session_end)]]
    /\ UNCHANGED <<analyserVars_but_requests, cs, pm, cache, intel, req, touched>>

(***************************************************************************)
(* analysis/pattern_matcher.py: calculate_directional_bias.  Percentages   *)
(* are in tenths, as round(pct, 1) leaves them.                            *)
(***************************************************************************)
\* calculate_directional_bias declaring a direction at 60% already
calculate_directional_bias_from_60(history_df, session_start, session_end) ==
    LET groups == GroupByDate(history_df)
        session_dfs == [i \in DOMAIN groups |->
                           filter_session(groups[i].day_df, session_start, session_end)]
        counted == {i \in DOMAIN groups : session_dfs[i] # <<>>}
        bullish_days == Cardinality({i \in counted :
                            session_dfs[i][Len(session_dfs[i])].close > session_dfs[i][1].open})
        bearish_days == Cardinality(counted) - bullish_days
        total_days == bullish_days + bearish_days
    IN  IF total_days = 0
        THEN [bias |-> "neutral", bullish_percentage |-> 500, bearish_percentage |-> 500]
        ELSE LET bullish_pct == Rat(bullish_days * 100, total_days)
                 bearish_pct == Rat(bearish_days * 100, total_days)
             IN  [bias |-> IF RatLE(RatInt(60), bullish_pct) THEN "bullish"
                           ELSE IF RatLE(RatInt(60), bearish_pct) THEN "bearish"
                           ELSE "neutral",
                  bullish_percentage |-> Round(bullish_pct, 10),
                  bearish_percentage |-> Round(bearish_pct, 10),
                  sample_size |-> total_days]

calculate_directional_bias(history_df, session_start, session_end) ==
    LET groups == GroupByDate(history_df)
        session_dfs == [i \in DOMAIN groups |->
                           filter_session(groups[i].day_df, session_start, session_end)]
        counted == {i \in DOMAIN groups : session_dfs[i] # <<>>}
        bullish_days == Cardinality({i \in counted :
                            session_dfs[i][Len(session_dfs[i])].close > session_dfs[i][1].open})
        bearish_days == Cardinality(counted) - bullish_days
        total_days == bullish_days + bearish_days
    IN  IF total_days = 0
        THEN [bias |-> "neutral", bullish_percentage |-> 500, bearish_percentage |-> 500]
        ELSE LET bullish_pct == Rat(bullish_days * 100, total_days)
                 bearish_pct == Rat(bearish_days * 100, total_days)
             IN  [bias |-> IF RatLT(RatInt(60), bullish_pct) THEN "bullish"
                           ELSE IF RatLT(RatInt(60), bearish_pct) THEN "bearish"
                           ELSE "neutral",
                  bullish_percentage |-> Round(bullish_pct, 10),
                  bearish_percentage |-> Round(bearish_pct, 10),
                  sample_size |-> total_days]

MaxBiasDays == 5
BiasDayKinds == {"up", "down", "flat", "out"}

PricedCandle(day, t, open, close) ==
    [ts |-> day * (24 * 60) + t,
     open |-> 10000 + open,
     high |-> 10000 + (IF open > close THEN open ELSE close),
     low |-> 10000 + (IF open > close THEN close ELSE open),
     close |-> 10000 + close]

\* one day of candles around the london window 07:00-16:00
BiasDayCandles(kind, day) ==
    IF kind = "up"
    THEN <<PricedCandle(day, HHMM(7, 0), 6, 2), PricedCandle(day, HHMM(15, 59), 2, 7),
           PricedCandle(day, HHMM(20, 0), 7, 1)>>
    ELSE IF kind = "down"
    THEN <<PricedCandle(day, HHMM(6, 0), 0, 9), PricedCandle(day, HHMM(7, 0), 9, 12),
           PricedCandle(day, HHMM(15, 0), 12, 8), PricedCandle(day, HHMM(16, 0), 8, 20)>>
    ELSE IF kind = "flat"
    THEN <<PricedCandle(day, HHMM(9, 0), 4, 7), PricedCandle(day, HHMM(10, 0), 7, 4)>>
    ELSE <<PricedCandle(day, HHMM(3, 0), 0, 5), PricedCandle(day, HHMM(16, 0), 5, 9)>>

BiasHistories ==
    UNION {{Concat([i \in 1..k |-> BiasDayCandles(kinds[i], i)]) : kinds \in [1..k -> BiasDayKinds]} : k \in 0..MaxBiasDays}

CalculateDirectionalBias(df) ==
    /\ call = NoCall
    /\ call' = [op |-> "calculate_directional_bias",
                args |-> [historical_df |-> df, session_start |-> HHMM(7, 0),
                          session_end |-> HHMM(16, 0)],
                out |-> calculate_directional_bias(df, HHMM(7, 0), HHMM(16, 0))]
    /\ UNCHANGED <<analyserVars_but_requests, cs, pm, cache, intel, req, touched>>

NextCalls ==
    \/ /\ call = NoCall
       /\ \E df \in BiasHistories : CalculateDirectionalBias(df)
    \/ \E t \in CandleTimeInputs, a \in WindowEdgeInputs, b \in WindowEdgeInputs :
          FilterSession(t, a, b)
    \/ \E v \in TierInputs, r \in GuidanceRateInputs, c \in BOOLEAN, e \in BOOLEAN :
          GenerateAgentGuidance(v, r, c, e)
    \/ \E x \in ExpectedPipsInputs, p \in ClassifyPairInputs, k \in SessionLabelInputs :
          ClassifyVolatility(x, p, k)
    \/ \E c \in RangeInputs, a \in AvgRangeInputs, e \in ExpansionRateInputs,
          r \in SessionRangeInputs : CalculateExpectedDeviation(c, a, e, r)
    \/ \E x \in ExpectationInputs, r \in RatioInputs, n \in SampleSizeInputs :
          GetConfidenceForExpectation(x, r, n)
    \/ \E op \in SeriesOperations, kinds \in KindSeqs(MaxHistDays) : AnalyseSeries(op, kinds)
    \/ \E selector \in SelectorInputs, clock \in ClockInputs :
          ResolveTargetSession(selector, clock)
    \/ \E c \in RangeInputs, a \in AvgRangeInputs, t \in ThresholdInputs :
          DetectCompression(c, a, t)
    \/ \E o \in OccurrenceInputs, e \in RateInputs, h \in BOOLEAN, d \in DataAgeInputs,
          m \in MaxDataAgeInputs :
          \/ CalculateConfidence(o, e, h, d, m)
          \/ GetConfidenceBreakdown(o, e, h, d, m)
    \/ \E o \in OccurrenceInputs, e \in RateInputs, h \in BOOLEAN, d \in DataAgeInputs,
          c \in CurrentAtrInputs, a \in AvgAtrInputs :
          AdjustForVolatilityRegime(calculate_confidence(o, e, h, d, MaxDataAge), c, a)

SpecCalls == InitCalls /\ [][NextCalls]_vars

\* C14: detect_compression returns (False, 1.0) when the average is 0; otherwise
\* is_compressed is true exactly when current / avg <= threshold, and the ratio
\* returned is current / avg rounded to 2 decimals.
C14_CompressionDetected ==
    call.op = "detect_compression" =>
        LET c == call.args.current_range
            a == call.args.avg_range
            t == call.args.threshold
        IN  /\ a.n = 0 => call.out = [is_compressed |-> FALSE, ratio |-> RatInt(1)]
            /\ a.n # 0 =>
                /\ call.out.is_compressed <=> (c.n * a.d * t.d <= t.n * c.d * a.n)
                /\ 100 % call.out.ratio.d = 0
                /\ 200 * AbsInt(call.out.ratio.n * c.d * a.n - c.n * a.d * call.out.ratio.d)
                       <= call.out.ratio.d * c.d * a.n

\* a ratio exactly on the default threshold, and compressed
C14_Witness ==
    /\ call.op = "detect_compression"
    /\ call.args.avg_range = RatInt(10)
    /\ call.args.current_range = RatInt(7)
    /\ call.args.threshold = DefaultCompressionThreshold
    /\ call.out = [is_compressed |-> TRUE, ratio |-> Rat(70, 100)]

\* C15: for a confidence c that calculate_confidence produced and ATRs >= 0,
\* adjust_for_volatility_regime (factor 0.10) returns a value in [0, 0.85]: c when
\* avg_atr = 0; otherwise, with r = current_atr / avg_atr, c - 0.10 when r > 1.5 or
\* r < 0.5, c + 0.05 when 0.8 <= r <= 1.2, c for the other r, clamped to [0, 0.85].
C15_RegimeAdjustment ==
    call.op = "adjust_for_volatility_regime" =>
        LET c == call.args.base_confidence
            cur == call.args.current_atr
            avg == call.args.avg_atr
            \* r compared with k / 10
            above(k) == 10 * cur.n * avg.d > k * avg.n * cur.d
            below(k) == 10 * cur.n * avg.d < k * avg.n * cur.d
            hundredths == (c.n * 100) \div c.d
            moved == IF above(15) \/ below(5) THEN hundredths - 10
                     ELSE IF ~below(8) /\ ~above(12) THEN hundredths + 5
                     ELSE hundredths
            clamped == IF moved < 0 THEN 0 ELSE IF moved > 85 THEN 85 ELSE moved
        IN  /\ RatLE(RatInt(0), call.out)
            /\ RatLE(call.out, Rat(85, 100))
            /\ avg.n = 0 => call.out = c
            /\ avg.n # 0 => call.out = Rat(clamped, 100)

\* the boost of the normal regime stopped at the cap, and the penalty of an
\* unusual regime stopped at 0
C15_Witness ==
    /\ call.op = "adjust_for_volatility_regime"
    /\ call.args.avg_atr = RatInt(10)
    /\ \/ /\ call.args.current_atr = RatInt(12)
          /\ call.args.base_confidence = Rat(85, 100)
          /\ call.out = Rat(85, 100)
       \/ /\ call.args.current_atr = RatInt(16)
          /\ call.args.base_confidence = Rat(8, 100)
          /\ call.out = RatInt(0)

\* the four components a breakdown returned, added up
ReturnedSum ==
    RatAdd(RatAdd(call.out.sample_size_score, call.out.pattern_strength_score),
           RatAdd(call.out.event_catalyst_score, call.out.data_quality_score))

\* a breakdown asked for with arguments in the domain of the claim
BreakdownReturned == call.op = "get_confidence_breakdown" /\ call.args.max_data_age > 0

\* C16 as claimed: for occurrences >= 0, a rate in [0, 1], data_age_days >= 0 and
\* max_data_age > 0, get_confidence_breakdown returns four components >= 0 and a
\* total equal to min(sum of the four returned components, 0.85) rounded to 2
\* decimals, which is what calculate_confidence returns for the same arguments.
C16_TotalOfReturnedComponents ==
    BreakdownReturned =>
        /\ RatLE(RatInt(0), call.out.sample_size_score)
        /\ RatLE(RatInt(0), call.out.pattern_strength_score)
        /\ RatLE(RatInt(0), call.out.event_catalyst_score)
        /\ RatLE(RatInt(0), call.out.data_quality_score)
        /\ call.out.total = Rat(Round(RatMin(ReturnedSum, ConfidenceCap), 100), 100)
        /\ call.out.total =
               calculate_confidence(call.args.occurrences, call.args.expansion_rate,
                                    call.args.has_event, call.args.data_age_days,
                                    call.args.max_data_age)

\* C16 amended: the four components returned are >= 0 and are the weighted
\* components rounded to 3 decimals; the total is min(sum of the components before
\* their rounding, 0.85) rounded to 2 decimals, which is what calculate_confidence
\* returns for the same arguments, and it is within 0.01 of the figure made from
\* the returned components.
C16_TotalOfUnroundedComponents ==
    BreakdownReturned =>
        LET a == call.args
            sample == IF a.occurrences >= 120 THEN Rat(40, 100)
                      ELSE Rat(a.occurrences * 40, 120 * 100)
            pattern == RatMul(RatAbs(RatSub(a.expansion_rate, Rat(1, 2))), Rat(50, 100))
            event == IF a.has_event THEN Rat(20, 100) ELSE RatInt(0)
            data == IF a.data_age_days >= a.max_data_age THEN RatInt(0)
                    ELSE Rat((a.max_data_age - a.data_age_days) * 15, a.max_data_age * 100)
            sum == RatAdd(RatAdd(sample, pattern), RatAdd(event, data))
            near(x, y, tol) == RatLE(RatAbs(RatSub(x, y)), tol)
        IN  /\ RatLE(RatInt(0), call.out.sample_size_score)
            /\ RatLE(RatInt(0), call.out.pattern_strength_score)
            /\ RatLE(RatInt(0), call.out.event_catalyst_score)
            /\ RatLE(RatInt(0), call.out.data_quality_score)
            /\ 1000 % call.out.sample_size_score.d = 0
            /\ 1000 % call.out.data_quality_score.d = 0
            /\ near(call.out.sample_size_score, sample, Rat(1, 2000))
            /\ near(call.out.pattern_strength_score, pattern, Rat(1, 2000))
            /\ near(call.out.event_catalyst_score, event, Rat(1, 2000))
            /\ near(call.out.data_quality_score, data, Rat(1, 2000))
            /\ 100 % call.out.total.d = 0
            /\ near(call.out.total, RatMin(sum, ConfidenceCap), Rat(1, 200))
            /\ call.out.total =
                   calculate_confidence(a.occurrences, a.expansion_rate, a.has_event,
                                        a.data_age_days, a.max_data_age)
            /\ near(call.out.total,
                    Rat(Round(RatMin(ReturnedSum, ConfidenceCap), 100), 100), Rat(1, 100))

\* one match, rate 0, no event, data 15 days old of 60: components 0.003, 0.25, 0
\* and 0.112 add up to 0.365, and the total is 0.37
C16_Witness ==
    /\ BreakdownReturned
    /\ call.args = [occurrences |-> 1, expansion_rate |-> RatInt(0), has_event |-> FALSE,
                    data_age_days |-> 15, max_data_age |-> 60]
    /\ ReturnedSum = Rat(365, 1000)
    /\ call.out.total = Rat(37, 100)

\* C17 as claimed: no operation of the analysis classes fails with a division by
\* zero, whatever the arguments, a zero max_data_age included.
C17_NoDivisionByZero == call.op # "none" => call.out # ZeroDivisionError

\* a request answered by the whole pipeline, and whether the calendar gave an event
PipelineReturned == pc = "returned" /\ analysis # None
EventFound == calendar_answer # None /\ calendar_answer # NoEvent

\* C18 as claimed: the drivers are, in this order, one range description with the
\* pip values, one event description exactly when an event was found, and one
\* pattern statement: the expansion wording whenever expansion_rate > 0.6, the
\* range-bound wording whenever it is < 0.4, the mixed wording otherwise; 2 entries
\* without an event, 3 with one.
C18_DriversByRate ==
    PipelineReturned =>
        LET drivers == result.drivers
            rate == analysis.pattern_results.expansion_rate
        IN  /\ Len(drivers) = (IF EventFound THEN 3 ELSE 2)
            /\ drivers[1].kind \in {"range_compressed", "range_status"}
            /\ drivers[1].a = Round(analysis.current_pre_range, 1)
            /\ EventFound => drivers[2].kind = "event"
            /\ drivers[Len(drivers)].kind =
                   (IF RatLT(Rat(6, 10), rate) THEN "pattern_expansion"
                    ELSE IF RatLT(rate, Rat(4, 10)) THEN "pattern_range_bound"
                    ELSE "pattern_mixed")

\* the sessions whose half-open window holds minute t of the day
ActiveAt(t) ==
    (IF 0 <= t /\ t < 9 * 60 THEN {ASIAN} ELSE {}) \cup
    (IF 8 * 60 <= t /\ t < 16 * 60 THEN {LONDON} ELSE {}) \cup
    (IF 13 * 60 <= t /\ t < 21 * 60 THEN {NY} ELSE {})
\* the starts of the sessions today and tomorrow, in minutes from today's midnight
StartsFrom(k) ==
    LET s == IF k = ASIAN THEN 0 ELSE IF k = LONDON THEN 8 * 60 ELSE 13 * 60
    IN  {s, s + 24 * 60}
AutoWhileOpen ==
    /\ call.op = "resolve_session"
    /\ call.args.target_session = AUTO
    /\ ~call.out.closed

C20_SeriesUnmodified ==
    call.op \in SeriesOperations =>
        /\ call.df.rows = call.args.df.rows
        /\ call.df.columns = call.args.df.columns

\* the ratios >= 0 as far from 1.0 as ratio r is
SameDistance(r) ==
    LET d == RatAbs(RatSub(r, RatInt(1)))
    IN  {x \in {RatSub(RatInt(1), d), RatAdd(RatInt(1), d)} : RatLE(RatInt(0), x)}

\* C21 as claimed: get_confidence_for_expectation returns a value in [0, 1] for
\* every expectation, ratio >= 0 and sample size >= 0, and for the same sample
\* size and the same distance of the ratio from 1.0 the value for High is strictly
\* greater than the value for Low.
C21_HighAboveLow ==
    call.op = "get_confidence_for_expectation" =>
        /\ RatLE(RatInt(0), call.out)
        /\ RatLE(call.out, RatInt(1))
        /\ call.args.expectation = "High" =>
              \A r \in SameDistance(call.args.compression_ratio) :
                  RatLT(get_confidence_for_expectation("Low", r, call.args.sample_size),
                        call.out)

DebugFields == {"last_24h_range_pips", "avg_7day_range_pips", "compression_ratio"}
SchemaFields ==
    {"pair", "session", "time_window_minutes", "volatility_expectation",
     "expected_deviation_pips", "confidence", "drivers", "historical_context",
     "agent_guidance"}

\* C22 as claimed: every result of build_intel has the nine schema fields, the
\* pair in upper case and time_window_minutes = 90, and has the three debug fields
\* exactly when the call was made with debug = True.
C22_DebugFieldsFollowFlag ==
    intel.pc = "returned" =>
        LET fields == DOMAIN intel.result
        IN  /\ SchemaFields \subseteq fields
            /\ intel.result.pair = Upper(intel.result.pair)
            /\ intel.result.time_window_minutes = 90
            /\ intel.debug => DebugFields \subseteq fields
            /\ ~intel.debug => DebugFields \cap fields = {}

\* C23: calculate_expected_deviation returns max(10, avg_session + (avg_pre -
\* current_pre) * rate * 1.5) when avg_pre # 0 and current_pre / avg_pre <= 0.7,
\* and max(10, avg_session) in every other case; it is never below 10.
C23_ExpectedDeviation ==
    call.op = "calculate_expected_deviation" =>
        LET c == call.args.current_pre_range
            a == call.args.avg_pre_range
            e == call.args.historical_expansion_rate
            r == call.args.avg_session_range
            compressed == a.n # 0 /\ 10 * c.n * a.d <= 7 * c.d * a.n
            \* (a - c) * e * 3 / 2 as one fraction
            expansion == Rat((a.n * c.d - c.n * a.d) * e.n * 3, a.d * c.d * e.d * 2)
            expected == IF compressed THEN RatAdd(r, expansion) ELSE r
        IN  /\ RatLE(RatInt(10), call.out)
            /\ call.out = (IF RatLT(expected, RatInt(10)) THEN RatInt(10) ELSE expected)

\* a compressed range: 3 + (10 - 0) * 1 * 1.5 = 18
C23_Witness ==
    /\ call.op = "calculate_expected_deviation"
    /\ call.args = [current_pre_range |-> RatInt(0), avg_pre_range |-> RatInt(10),
                    historical_expansion_rate |-> RatInt(1),
                    avg_session_range |-> RatInt(3)]
    /\ call.out = RatInt(18)

QuotedInJpy == {<<"G", "B", "P", "_", "J", "P", "Y">>, <<"u", "s", "d", "/", "j", "p", "y">>}
TierRank(tier) == IF tier = "Low" THEN 0 ELSE IF tier = "Medium" THEN 1 ELSE 2

GuidanceSentences ==
    <<"Avoid mean-reversion strategies; favor breakout or momentum confirmation setups.",
      "High-impact event expected; consider wider stops and wait for initial volatility to settle before entering.",
      "Range-bound conditions likely; favor mean-reversion strategies with tight stops.",
      "Compressed range suggests coiled spring; monitor for breakout in direction of higher timeframe trend.",
      "Moderate volatility expected; standard risk management applies. Watch for direction confirmation.",
      "Event scheduled but historical expansion limited; consider reduced position sizing and avoid early entries.",
      "Mixed signals; wait for clearer price action confirmation before entering positions.">>

\* the rules that match the arguments of a call, by number; r100 is the rate in hundredths
GuidanceRulesMatching(a) ==
    LET above(k) == k * a.expansion_rate.d < 100 * a.expansion_rate.n
        below(k) == 100 * a.expansion_rate.n < k * a.expansion_rate.d
    IN  {i \in 1..7 :
            \/ i = 1 /\ a.volatility_level = "High" /\ above(60) /\ a.is_compressed
            \/ i = 2 /\ a.volatility_level = "High" /\ a.has_event
            \/ i = 3 /\ a.volatility_level = "Low" /\ below(40)
            \/ i = 4 /\ a.is_compressed /\ above(50)
            \/ i = 5 /\ a.volatility_level = "Medium"
            \/ i = 6 /\ a.has_event /\ below(50)
            \/ i = 7}

\* C25: generate_agent_guidance returns the sentence of the first matching rule of
\* the seven ordered rules, so every combination of tier, rate, compression flag
\* and event flag yields exactly one non-empty sentence and an earlier rule wins
\* over every later rule that also matches.
C25_FirstMatchingRule ==
    call.op = "generate_agent_guidance" =>
        LET matching == GuidanceRulesMatching(call.args)
            first == CHOOSE i \in matching : \A j \in matching : i <= j
        IN  /\ call.out.guidance = GuidanceSentences[first]
            /\ call.out.guidance # ""
            /\ \A j \in matching : j # first => call.out.guidance # GuidanceSentences[j]

\* High tier, compressed, rate 0.61 and an event: rules 1, 2, 4 and 7 all match
C25_Witness ==
    /\ call.op = "generate_agent_guidance"
    /\ call.args = [volatility_level |-> "High", expansion_rate |-> Rat(61, 100),
                    is_compressed |-> TRUE, has_event |-> TRUE]
    /\ GuidanceRulesMatching(call.args) = {1, 2, 4, 7}
    /\ call.out.guidance = GuidanceSentences[1]

\* the rule of the claim: start <= t < end when start < end, t >= start or t < end otherwise
InClaimedWindow(t, start, end) ==
    IF start < end THEN start <= t /\ t < end ELSE t >= start \/ t < end

\* C26: RangeCalculator._filter_session and ingest._session_mask both keep a candle
\* exactly when its time of day is in the window (start <= t < end if start < end,
\* t >= start or t < end otherwise, start = end included), so the two filters
\* keep the same candles for every start, end and t.
C26_FiltersAgree ==
    call.op = "filter_session" =>
        LET wanted == InClaimedWindow(call.args.t, call.args.session_start, call.args.session_end)
        IN  /\ (Len(call.out.kept) = 1) = wanted
            /\ call.out.mask[1] = wanted

\* the days of a frame with a candle in [start, end), each with the indices of its
\* first and last such candle
CountedDays(df, start, end) ==
    LET inside(d) == {i \in DOMAIN df : df[i].ts \div 1440 = d /\ df[i].ts % 1440 >= start
                                        /\ df[i].ts % 1440 < end}
        first(d) == CHOOSE i \in inside(d) : \A j \in inside(d) : i <= j
        last(d) == CHOOSE i \in inside(d) : \A j \in inside(d) : i >= j
    IN  {[date |-> d, first |-> first(d), last |-> last(d)] :
            d \in {e \in {df[i].ts \div 1440 : i \in DOMAIN df} : inside(e) # {}}}

\* C27: calculate_directional_bias counts only the days with a candle in the session
\* window; a day is bullish when its last session close is above its first session
\* open and bearish otherwise; the bias is 'bullish' exactly when strictly more than
\* 60% of the counted days are bullish, 'bearish' exactly when strictly more than
\* 60% are bearish, 'neutral' otherwise; zero counted days give 'neutral', 50.0/50.0.
C27_DirectionalBias ==
    call.op = "calculate_directional_bias" =>
        LET df == call.args.historical_df
            days == CountedDays(df, call.args.session_start, call.args.session_end)
            bullish == Cardinality({d \in days : df[d.last].close > df[d.first].open})
            bearish == Cardinality({d \in days : df[d.last].close <= df[d.first].open})
            total == Cardinality(days)
        IN  /\ (call.out.bias = "bullish") = (100 * bullish > 60 * total)
            /\ (call.out.bias = "bearish") = (100 * bearish > 60 * total)
            /\ (call.out.bias = "neutral")
                   = (100 * bullish <= 60 * total /\ 100 * bearish <= 60 * total)
            /\ total > 0 => call.out.sample_size = total
            /\ total = 0 => call.out = [bias |-> "neutral", bullish_percentage |-> 500,
                                        bearish_percentage |-> 500]

\* five counted days, three of them bullish: exactly 60%, hence neutral
C27_Witness ==
    /\ call.op = "calculate_directional_bias"
    /\ call.args.historical_df = Concat([i \in 1..5 |->
           BiasDayCandles(<<"up", "flat", "up", "down", "up">>[i], i)])
    /\ call.out = [bias |-> "neutral", bullish_percentage |-> 600,
                   bearish_percentage |-> 400, sample_size |-> 5]

\* the candles of a frame dated d whose time of day t has start - 90 <= t < start
SameDayPreSession(df, d, start) ==
    SelectSeq(df, LAMBDA c : /\ c.ts \div 1440 = d
                             /\ start - 90 <= c.ts % 1440
                             /\ c.ts % 1440 < start)

\* C28: the historical computations evaluate each calendar day's candles alone, so
\* the window [session_start - 90 min, session_start) holds only candles dated the
\* day of session_start; for the session starting at 00:00 it is empty on every
\* day: the pre-session average is 0, detect_compression gives (False, 1.0) and
\* find_similar_conditions gives 0 occurrences with expansion_rate 0.5.
C28_PreSessionWithinTheDay ==
    analysis # None =>
        /\ \A g \in Range(GroupByDate(historical_df)) :
               filter_pre_session(g.day_df, SESSIONS[session_key].start, 90)
                   = SameDayPreSession(historical_df, g.date, SESSIONS[session_key].start)
        /\ session_key = ASIAN =>
               /\ analysis.avg_pre_range = RatInt(0)
               /\ analysis.is_compressed = FALSE
               /\ analysis.compression_ratio = RatInt(1)
               /\ analysis.pattern_results.similar_conditions_occurrences = 0
               /\ analysis.pattern_results.expansion_rate = Rat(1, 2)

\* the asian session analysed on a history with a candle at 23:00 followed by
\* another day, and recent candles that give a positive current pre-session range
C28_Witness ==
    /\ analysis # None
    /\ session_key = ASIAN
    /\ \E i \in DOMAIN historical_df :
           /\ historical_df[i].ts % 1440 >= 1440 - 90
           /\ \E j \in DOMAIN historical_df :
                  historical_df[j].ts \div 1440 = historical_df[i].ts \div 1440 + 1
    /\ analysis.current_pre_range.n > 0
    /\ analysis.avg_pre_range = RatInt(0)
    /\ analysis.avg_session_range.n > 0

(***************************************************************************)
(* data/twelve_data_client.py with its clock: requests made one after the  *)
(* other on one TwelveDataClient.  Time is in hours; `now` is what         *)
(* datetime.now(pytz.UTC) returns, `client` holds the fields of the        *)
(* client and `call` the last request: the fields before it, its clock and *)
(* how it ended.                                                           *)
(***************************************************************************)
MaxClockHours == 72
ClockSteps == {6, 30}
ConstructionClocks == {0, 6, 18}
Transports == {"response", "http_error", "api_error", "transport_failure"}

\* now.replace(hour=0, minute=0, second=0, microsecond=0) + timedelta(days=1)
next_midnight(t) == t - (t % HoursPerDay) + HoursPerDay

\* __init__, lines 36-42
TwelveDataClient(max, t) ==
    [max_requests_per_day |-> max,
     daily_request_count |-> 0,
     last_request_time |-> 0,
     daily_reset_time |-> next_midnight(t)]

\* _check_rate_limit that starts the counter again on every call
reset_daily_counter_always(c, t) ==
    [c EXCEPT !.daily_request_count = 0, !.daily_reset_time = next_midnight(t)]

\* _check_rate_limit, lines 46-52
reset_daily_counter(c, t) ==
    IF t >= c.daily_reset_time
    THEN [c EXCEPT !.daily_request_count = 0, !.daily_reset_time = next_midnight(t)]
    ELSE c

\* _check_rate_limit, lines 54-59
daily_limit_raises(c) == c.daily_request_count >= c.max_requests_per_day

\* _make_request, lines 79-105: the fields after the request and how it ended
make_request(c, t, transport) ==
    LET checked == reset_daily_counter(c, t)
    IN  IF daily_limit_raises(checked)
        THEN [client |-> checked, outcome |-> "limit", sent |-> FALSE]
        ELSE IF transport = "transport_failure"
        THEN [client |-> checked, outcome |-> "request_failed", sent |-> TRUE]
        ELSE [client |-> [checked EXCEPT !.last_request_time = t,
                                         !.daily_request_count = @ + 1],
              outcome |-> IF transport = "response" THEN "data"
                          ELSE IF transport = "api_error" THEN "api_error"
                          ELSE "request_failed",
              sent |-> TRUE]

InitClient ==
    /\ pc = "idle"
    /\ now \in ConstructionClocks
    /\ client \in {TwelveDataClient(m, now) : m \in 0..MaxRequestsPerDay}
    /\ pair = <<>> /\ target_session = <<>> /\ session_key = <<>>
    /\ intraday_df = <<>> /\ historical_df = <<>>
    /\ analysis = None /\ result = None /\ error = "none" /\ log = <<>>
    /\ calendar_answer = None /\ prev = None
    /\ RequestsIdle
    /\ CallsIdle
    /\ priceScale = 1
    /\ ScorerIdle
    /\ MatcherIdle
    /\ EngineIdle

MakeRequest(transport) ==
    /\ LET r == make_request(client, now, transport)
       IN  /\ client' = r.client
           /\ call' = [op |-> "make_request", before |-> client, clock |-> now,
                       transport |-> transport, outcome |-> r.outcome, sent |-> r.sent]
    /\ UNCHANGED <<analyserState, prev, cs, pm, cache, intel, req, touched>>

ClockAdvances(d) ==
    /\ now + d <= MaxClockHours
    /\ now' = now + d
    /\ UNCHANGED <<pc, pair, target_session, session_key, intraday_df, historical_df,
                   analysis, result, error, log, priceScale, calendar_answer, client,
                   prev, cs, pm, cache, intel, call, req, touched>>

NextClient ==
    \/ \E transport \in Transports : MakeRequest(transport)
    \/ \E d \in ClockSteps : ClockAdvances(d)

SpecClient == InitClient /\ [][NextClient]_vars

\* C29: after any sequence of requests made one at a time, daily_request_count
\* never exceeds max_requests_per_day: at the limit, a request before
\* daily_reset_time raises the limit error, sends nothing and leaves the count;
\* the count goes up by exactly one per HTTP response received, error responses
\* included, and not at all when the transport fails; it goes back to 0 only
\* when the clock has reached daily_reset_time, which then becomes the next
\* midnight after the current time.
C29_DailyLimit ==
    /\ client.daily_request_count <= client.max_requests_per_day
    /\ call.op = "make_request" =>
          LET b == call.before
              t == call.clock
              due == t >= b.daily_reset_time
              start == IF due THEN 0 ELSE b.daily_request_count
              received == call.sent /\ call.transport # "transport_failure"
          IN  /\ (b.daily_request_count >= b.max_requests_per_day /\ ~due) =>
                    /\ call.outcome = "limit"
                    /\ ~call.sent
                    /\ client.daily_request_count = b.daily_request_count
              /\ received => client.daily_request_count = start + 1
              /\ ~received => client.daily_request_count = start
              /\ client.daily_request_count < b.daily_request_count => due
              /\ due => /\ client.daily_reset_time > t
                        /\ client.daily_reset_time - t <= 24
                        /\ client.daily_reset_time % 24 = 0
              /\ ~due => client.daily_reset_time = b.daily_reset_time

\* a client at its limit: a request before the reset time is refused unsent
C29_Witness ==
    /\ call.op = "make_request"
    /\ call.before.max_requests_per_day = 2
    /\ call.before.daily_request_count = 2
    /\ call.clock < call.before.daily_reset_time
    /\ call.outcome = "limit"
    /\ client = call.before

(***************************************************************************)
(* data_fetcher.py: DataFetcher.fetch_data and clear_cache, called by two  *)
(* threads on the one module-level DataFetcher of engine.py.  A dict       *)
(* lookup, a dict assignment, pop and clear are each one step; yf.download *)
(* runs between the lookup and the assignment.  `cache` is self._cache,    *)
(* req[r] the call thread r is in, `call` the last step with the cache     *)
(* before it, and log[p] the series stored under p since p was last        *)
(* cleared, oldest first.                                                  *)
(***************************************************************************)
MaxStores == 2
FetcherPairs == {EUR \o USD, USD \o JPY}
CandleSeries == {<<>>, <<Candle(1, 0, 0, 10, 1)>>, <<Candle(1, 0, 0, 10, 1), Candle(1, 60, 5, 20, 1)>>}

\* line 57
cache_hit(entries, p, use_cache) == use_cache /\ p \in DOMAIN entries

\* line 77 written as self._cache.setdefault(pair, data)
cache_store_if_absent(entries, p, data) == entries @@ (p :> data)

\* line 77
cache_store(entries, p, data) == (p :> data) @@ entries

\* clear_cache, lines 91-96: `if pair:` is false for None and for the empty string,
\* both written <<>> here
clear_cache(entries, p) ==
    IF p = <<>> THEN <<>> ELSE [q \in DOMAIN entries \ {p} |-> entries[q]]

FetchIdle == [pc |-> "idle", step |-> "none", count |-> 0]

InitFetcher ==
    /\ AnalyserIdle
    /\ ClientIdle
    /\ priceScale = 1
    /\ ScorerIdle
    /\ MatcherIdle
    /\ EngineIdle

Downloading(p) == {r \in Requests : req[r].pc = "downloading" /\ req[r].pair = p}

StoresOf(p) == IF p \in DOMAIN log THEN log[p] ELSE <<>>

\* fetch_data, lines 54-62: the cached series, or the download starts
FetchData(r, p, use_cache) ==
    /\ req[r].pc = "idle"
    /\ IF cache_hit(cache, p, use_cache)
       THEN req' = [req EXCEPT ![r] =
                       [pc |-> "returned", pair |-> p, use_cache |-> use_cache,
                        source |-> "cache", out |-> cache[p], overlapped |-> FALSE,
                        stored_since_clear |-> StoresOf(p)]]
       ELSE /\ Len(StoresOf(p)) + Cardinality(Downloading(p)) < MaxStores
            /\ req' = [q \in Requests |->
                         IF q = r
                         THEN [pc |-> "downloading", pair |-> p, use_cache |-> use_cache,
                               overlapped |-> Downloading(p) # {}]
                         ELSE IF q \in Downloading(p)
                         THEN [req[q] EXCEPT !.overlapped = TRUE]
                         ELSE req[q]]
    /\ call' = [op |-> "fetch_data", r |-> r, before |-> cache]
    /\ UNCHANGED <<analyserState, client, prev, cs, pm, cache, intel, log, touched>>

\* yf.download returns: lines 72-79
YfDownloadReturns(r, data) ==
    /\ req[r].pc = "downloading"
    /\ IF data = <<>>
       THEN /\ req' = [req EXCEPT ![r] = [pc |-> "returned", pair |-> req[r].pair,
                          use_cache |-> req[r].use_cache, source |-> "empty", out |-> None,
                          overlapped |-> req[r].overlapped]]
            /\ UNCHANGED <<cache, log>>
       ELSE /\ cache' = cache_store(cache, req[r].pair, data)
            /\ log' = (req[r].pair :> Append(StoresOf(req[r].pair), data)) @@ log
            /\ req' = [req EXCEPT ![r] = [pc |-> "returned", pair |-> req[r].pair,
                          use_cache |-> req[r].use_cache, source |-> "download", out |-> data,
                          overlapped |-> req[r].overlapped]]
    /\ call' = [op |-> "download_returns", r |-> r, before |-> cache]
    /\ UNCHANGED <<pc, now, pair, target_session, session_key, intraday_df, historical_df,
                   analysis, result, error, priceScale, calendar_answer, client, prev,
                   cs, pm, intel, touched>>

\* yf.download raises: lines 81-83
YfDownloadRaises(r) ==
    /\ req[r].pc = "downloading"
    /\ req' = [req EXCEPT ![r] = [pc |-> "returned", pair |-> req[r].pair,
                  use_cache |-> req[r].use_cache, source |-> "failed", out |-> None,
                  overlapped |-> req[r].overlapped]]
    /\ call' = [op |-> "download_raises", r |-> r, before |-> cache]
    /\ UNCHANGED <<analyserState, client, prev, cs, pm, cache, intel, log, touched>>

\* clear_cache(pair) and, with <<>>, clear_cache()
ClearCache(p) ==
    /\ cache' = clear_cache(cache, p)
    /\ log' = clear_cache(log, p)
    /\ call' = [op |-> "clear_cache", pair |-> p, before |-> cache]
    /\ UNCHANGED <<pc, now, pair, target_session, session_key, intraday_df, historical_df,
                   analysis, result, error, priceScale, calendar_answer, client, prev,
                   cs, pm, intel, req, touched>>

\* the caller takes what fetch_data returned
FetchDone(r) ==
    /\ req[r].pc = "returned"
    /\ req' = [req EXCEPT ![r] = FetchIdle]
    /\ call' = [op |-> "done", r |-> r, before |-> cache]
    /\ UNCHANGED <<analyserState, client, prev, cs, pm, cache, intel, log, touched>>

NextFetcher ==
    \/ \E r \in Requests, p \in FetcherPairs, use_cache \in BOOLEAN : FetchData(r, p, use_cache)
    \/ \E r \in Requests, data \in CandleSeries : YfDownloadReturns(r, data)
    \/ \E r \in Requests : YfDownloadRaises(r)
    \/ \E p \in FetcherPairs \cup {<<>>} : ClearCache(p)
    \/ \E r \in Requests : FetchDone(r)

SpecFetcher == InitFetcher /\ [][NextFetcher]_vars

Returned(r) == req[r].pc = "returned"

\* what does not depend on which stored series a cached call returns: the cache
\* holds whole non-empty downloads, each step changes it as documented, and two
\* overlapping downloads of one pair leave one of their two series
FetcherKeepsWholeSeries ==
    /\ \A p \in DOMAIN cache :
          /\ cache[p] \in CandleSeries \ {<<>>}
          /\ StoresOf(p) # <<>>
          /\ cache[p] = StoresOf(p)[Len(StoresOf(p))]
    /\ \A r \in Requests : Returned(r) =>
          /\ req[r].source \in {"empty", "failed"} => req[r].out = None
          /\ req[r].source = "download" => req[r].out \in CandleSeries \ {<<>>}
          /\ req[r].source = "cache" => req[r].use_cache /\ req[r].stored_since_clear # <<>>
    /\ call.op = "fetch_data" =>
          /\ cache = call.before
          /\ (Returned(call.r) /\ req[call.r].source = "cache")
                = (req[call.r].use_cache /\ req[call.r].pair \in DOMAIN call.before)
          /\ ~Returned(call.r) => req[call.r].pc = "downloading"
    /\ call.op \in {"download_returns", "download_raises"} =>
          IF req[call.r].source = "download"
          THEN /\ DOMAIN cache = DOMAIN call.before \cup {req[call.r].pair}
               /\ cache[req[call.r].pair] = req[call.r].out
               /\ \A q \in DOMAIN call.before \ {req[call.r].pair} : cache[q] = call.before[q]
          ELSE cache = call.before
    /\ call.op = "clear_cache" =>
          IF call.pair = <<>> THEN cache = <<>>
          ELSE /\ DOMAIN cache = DOMAIN call.before \ {call.pair}
               /\ \A q \in DOMAIN cache : cache[q] = call.before[q]
    /\ (/\ \A r \in Requests : Returned(r) /\ req[r].source = "download" /\ req[r].overlapped
        /\ req[1].pair = req[2].pair) =>
          \/ req[1].pair \notin DOMAIN cache
          \/ cache[req[1].pair] \in {req[1].out, req[2].out}

\* C30 as claimed: the cache holds only complete, non-empty series; once a fetch has
\* stored a series under a pair, every later fetch_data(pair, use_cache=True)
\* returns that series without calling the source until clear_cache removes it; an
\* empty or failed fetch returns None and stores nothing; clear_cache(pair) removes
\* only that entry and clear_cache() all; two concurrent fetches of one uncached
\* pair leave one of their two complete series in the cache.
C30_StoredSeriesUntilCleared ==
    /\ FetcherKeepsWholeSeries
    /\ \A r \in Requests : (Returned(r) /\ req[r].source = "cache") =>
          \A i \in DOMAIN req[r].stored_since_clear :
              req[r].out = req[r].stored_since_clear[i]

\* C30 amended: as claimed, except that a cached call returns the series most
\* recently stored under the pair since the pair was last cleared: a fetch with
\* use_cache=False, or one that was already downloading, replaces the entry.
C30_LatestSeriesUntilCleared ==
    /\ FetcherKeepsWholeSeries
    /\ \A r \in Requests : (Returned(r) /\ req[r].source = "cache") =>
          req[r].out = req[r].stored_since_clear[Len(req[r].stored_since_clear)]

\* two overlapping downloads of one pair returned different series, the cache keeps
\* that of the first thread, and no entry was cleared
C30_Witness ==
    /\ \A r \in Requests : Returned(r) /\ req[r].source = "download" /\ req[r].overlapped
    /\ req[1].pair = req[2].pair
    /\ req[1].out # req[2].out
    /\ call.op = "download_returns" /\ call.r = 1
    /\ cache[req[1].pair] = req[1].out
    /\ Len(StoresOf(req[1].pair)) = 2

====
